---- MODULE Spec2Model ----
(***************************************************************************)
(* ArbScanner: the matching-and-opportunity engine of src/cgi-bin/scan.py. *)
(*                                                                         *)
(* Numbers.  Python floats are modelled in fixed point: a probability, a   *)
(* fee or a score x is the integer x * One (One = 10^8); a percentage is   *)
(* kept in units of 10^-6 percent before rounding, so that (1 - c) * 100   *)
(* is the same integer as One - c, and in units of 10^-3 percent           *)
(* (milli-percent) after round(x, 3).  Products and quotients are the      *)
(* exact floor of the real result.                                         *)
(*                                                                         *)
(* Text.  Strings are TLA+ strings; substring search, replacement,         *)
(* splitting and the regular expressions of the source are operators over  *)
(* them.                                                                   *)
(***************************************************************************)
EXTENDS Integers, Sequences, FiniteSets, TLC

VARIABLES
    prob_a, prob_b, fee_a, fee_b, arb,    \* compute_arb_binary: arguments, result
    name, once, twice, norm_pc,           \* normalize_name: argument, f(x), f(f(x))
    pred_market, candidates, matches,     \* try_match_prediction_to_sportsbook
    sportsbook_entries, fair_index,       \* build_fair_odds_index
    futures, fetched, params, response,   \* run_scan: fetch outcomes, fetched lists,
                                          \* request, response
    clock, first_run, second_run,         \* the wall clock in minutes; two runs of the
                                          \* finders on the same lists
    ev_price, ev_fair, ev_fee, ev_result, \* compute_ev: arguments, result
    pair_in, pair_out,                    \* one prediction quote against sportsbook
                                          \* quotes: the lists, what the finders give
    cross_in, cross_out,                  \* find_cross_prediction_arbs: lists, result
    infer_question, infer_subtype,        \* _infer_market_subtype: argument, result
    teams_text, teams_found,              \* extract_teams_from_text: argument, result
    cfg_db, cfg_env, cfg_config, cfg_body \* config endpoint: the stored keys, ODDS_API_KEY,
                                          \* the config a GET read, its response body

arbVars == <<prob_a, prob_b, fee_a, fee_b, arb>>
normVars == <<name, once, twice, norm_pc>>
matchVars == <<pred_market, candidates, matches>>
fairVars == <<sportsbook_entries, fair_index>>
scanVars == <<futures, fetched, params, response>>
repeatVars == <<clock, first_run, second_run>>
evVars == <<ev_price, ev_fair, ev_fee, ev_result>>
pairVars == <<pair_in, pair_out>>
crossVars == <<cross_in, cross_out>>
inferVars == <<infer_question, infer_subtype>>
teamsVars == <<teams_text, teams_found>>
configVars == <<cfg_db, cfg_env, cfg_config, cfg_body>>
vars == <<arbVars, normVars, matchVars, fairVars, scanVars, repeatVars, evVars, pairVars, crossVars,
          inferVars, teamsVars, configVars>>
\* what each specification leaves alone
notArb == <<normVars, matchVars, fairVars, scanVars, repeatVars, evVars, pairVars, crossVars,
            inferVars, teamsVars, configVars>>
notNorm == <<arbVars, matchVars, fairVars, scanVars, repeatVars, evVars, pairVars, crossVars,
            inferVars, teamsVars, configVars>>
notMatch == <<arbVars, normVars, fairVars, scanVars, repeatVars, evVars, pairVars, crossVars,
            inferVars, teamsVars, configVars>>
notFair == <<arbVars, normVars, matchVars, scanVars, repeatVars, evVars, pairVars, crossVars,
            inferVars, teamsVars, configVars>>
notScan == <<arbVars, normVars, matchVars, fairVars, repeatVars, evVars, pairVars, crossVars,
            inferVars, teamsVars, configVars>>

(***************************************************************************)
(* Fixed-point arithmetic                                                  *)
(***************************************************************************)
One == 10^8
Half == 10^4

\* floor(a * b / One), without leaving 32 bits
Mul(a, b) == LET a1 == a \div Half
                 a0 == a % Half
                 b1 == b \div Half
                 b0 == b % Half
             IN  a1 * b1 + (a1 * b0 + a0 * b1 + (a0 * b0) \div Half) \div Half

RECURSIVE DivDigits(_, _, _, _)
DivDigits(r, b, n, acc) == IF n = 0 THEN acc
                           ELSE DivDigits((r * 10) % b, b, n - 1, acc * 10 + (r * 10) \div b)

\* floor(a * One / b), by long division (b > 0)
Div(a, b) == DivDigits(a % b, b, 8, a \div b)

Abs(x) == IF x < 0 THEN -x ELSE x

\* Python round(): x / unit to the nearest integer, ties to even
RoundTo(x, unit) == LET q == x \div unit
                        r == x % unit
                    IN  IF 2 * r > unit THEN q + 1
                        ELSE IF 2 * r < unit THEN q
                        ELSE IF q % 2 = 0 THEN q ELSE q + 1

\* round(pct, 3): from 10^-6 percent to milli-percent
Round3(pct) == RoundTo(pct, 1000)

\* a probability given in units of 10^-4 (0.4545 is P4(4545))
P4(n) == n * Half

None == [is_none |-> TRUE]

(***************************************************************************)
(* compute_arb_binary                                                      *)
(***************************************************************************)
AdjProbSignSlip(prob, fee) == prob - Mul(One - prob, fee)

\* cost + fee on winnings
AdjProb(prob, fee) == prob + Mul(One - prob, fee)

NoArbStrict(cost) == cost > One

\* "if cost >= 1.0: return None"
NoArb(cost) == cost >= One

compute_arb_binary(pa, pb, fa, fb) ==
    IF pa <= 0 \/ pb <= 0 THEN None
    ELSE LET cost == pa + pb
             gross_profit_pct == One - cost
             net_cost == AdjProb(pa, fa) + AdjProb(pb, fb)
             net_profit_pct == One - net_cost
         IN  IF NoArb(cost) THEN None
             ELSE [is_none |-> FALSE,
                   gross_arb_pct |-> Round3(gross_profit_pct),
                   net_arb_pct |-> Round3(net_profit_pct),
                   cost |-> RoundTo(cost, 1000),
                   net_cost |-> RoundTo(net_cost, 1000)]

(***************************************************************************)
(* Specification SpecArb: compute_arb_binary on a grid of arguments        *)
(***************************************************************************)
MaxProbStep == 9
MaxFeeStep == 4

\* 0.1, 0.2, ... plus off-grid prices such as 0.4545
ArbProbs == {P4(1000 * k) : k \in 1..MaxProbStep} \cup {P4(4545), P4(4800), P4(5455), P4(9999)}
\* 0, 0.02 (Polymarket), 0.04, ... plus a Kalshi fee 0.07 * 0.45
ArbFees == {P4(200 * k) : k \in 0..MaxFeeStep} \cup {P4(315)}

Pending == [is_none |-> FALSE, pending |-> TRUE]

ArbIdle == prob_a = 0 /\ prob_b = 0 /\ fee_a = 0 /\ fee_b = 0 /\ arb = Pending

InitArb ==
    /\ prob_a \in ArbProbs
    /\ prob_b \in ArbProbs
    /\ fee_a \in ArbFees
    /\ fee_b \in ArbFees
    /\ arb = Pending

ComputeArb ==
    /\ arb = Pending
    /\ arb' = compute_arb_binary(prob_a, prob_b, fee_a, fee_b)
    /\ UNCHANGED <<prob_a, prob_b, fee_a, fee_b, notArb>>

\* C1: for p, q in (0,1) and any fees, no opportunity when p + q >= 1, and
\* otherwise the gross edge is (1 - (p + q)) * 100 rounded to 3 decimals,
\* whatever the fees.
C1_GrossEdge ==
    arb # Pending =>
        /\ (prob_a + prob_b >= One) => arb = None
        /\ (prob_a + prob_b < One) =>
              /\ arb # None
              /\ arb.gross_arb_pct = RoundTo(One - (prob_a + prob_b), 1000)
              /\ \A fa \in ArbFees, fb \in ArbFees :
                    compute_arb_binary(prob_a, prob_b, fa, fb).gross_arb_pct = arb.gross_arb_pct

\* a rejected pair with p + q exactly 1 and an accepted pair with fees
C1_Witness ==
    \/ arb = None /\ prob_a + prob_b = One
    \/ arb # Pending /\ arb # None /\ fee_a > 0 /\ fee_b > 0 /\ arb.gross_arb_pct = 9550

\* C2: for fixed p, q with p + q < 1, raising either fee never raises the
\* net edge.
C2_FeeMonotonic ==
    (arb # Pending /\ arb # None) =>
        \A fa \in ArbFees, fb \in ArbFees :
            (fa >= fee_a /\ fb >= fee_b) =>
                compute_arb_binary(prob_a, prob_b, fa, fb).net_arb_pct <= arb.net_arb_pct

\* an arbitrage whose net edge strictly drops under a higher fee
C2_Witness ==
    /\ arb # Pending /\ arb # None
    /\ \E fa \in ArbFees : fa > fee_a /\
          compute_arb_binary(prob_a, prob_b, fa, fee_b).net_arb_pct < arb.net_arb_pct

(***************************************************************************)
(* Text primitives (Python str and re)                                     *)
(***************************************************************************)
UpperChars == "ABCDEFGHIJKLMNOPQRSTUVWXYZ"
LowerChars == "abcdefghijklmnopqrstuvwxyz"
DigitChars == "0123456789"

Char(s, i) == SubSeq(s, i, i)

\* 1-based position of the one-character string c in s, 0 when absent
CharPos(s, c) == IF \E i \in 1..Len(s) : Char(s, i) = c
                 THEN CHOOSE i \in 1..Len(s) : Char(s, i) = c /\ \A j \in 1..(i - 1) : Char(s, j) # c
                 ELSE 0

\* the characters of s, as a set of one-character strings
CharSet(s) == {Char(s, i) : i \in 1..Len(s)}

UpperSet == CharSet(UpperChars)
LowerSet == CharSet(LowerChars)
DigitSet == CharSet(DigitChars)
WordSet == UpperSet \cup LowerSet \cup DigitSet \cup {"_"}

\* the lower-case and upper-case forms of the letters
ToLower == [c \in UpperSet |-> Char(LowerChars, CharPos(UpperChars, c))]
ToUpper == [c \in LowerSet |-> Char(UpperChars, CharPos(LowerChars, c))]

IsSpace(c) == c \in {" ", "\t", "\n", "\r", "\f"}
IsDigit(c) == c \in DigitSet
IsLowerAlnum(c) == c \in LowerSet \/ c \in DigitSet
\* \w of the regular expressions
IsWordChar(c) == c \in WordSet

LowerChar(c) == IF c \in UpperSet THEN ToLower[c] ELSE c

RECURSIVE LowerIn(_, _, _)
\* characters lo..hi of s in lower case (the range is halved to keep the
\* evaluation shallow)
LowerIn(s, lo, hi) ==
    IF lo > hi THEN ""
    ELSE IF lo = hi THEN LowerChar(Char(s, lo))
    ELSE LowerIn(s, lo, (lo + hi) \div 2) \o LowerIn(s, (lo + hi) \div 2 + 1, hi)

\* str.lower()
Lower(s) == LowerIn(s, 1, Len(s))

\* sub occurs in s at position i
OccursAt(s, sub, i) == i >= 1 /\ i + Len(sub) - 1 <= Len(s) /\ SubSeq(s, i, i + Len(sub) - 1) = sub

\* "sub in s"
Contains(s, sub) == LET n == Len(sub)
                    IN  \E i \in 1..(Len(s) - n + 1) : SubSeq(s, i, i + n - 1) = sub

\* str.find from position from (1-based; 0 when absent)
Find(s, sub, from) == LET hits == {i \in from..(Len(s) - Len(sub) + 1) : OccursAt(s, sub, i)}
                      IN  IF hits = {} THEN 0 ELSE CHOOSE i \in hits : \A j \in hits : i <= j

Suffix(s, i) == SubSeq(s, i, Len(s))

RECURSIVE Replace(_, _, _)
\* str.replace(old, new): leftmost, non-overlapping occurrences (old non-empty)
Replace(s, old, new) == LET i == Find(s, old, 1)
                        IN  IF i = 0 THEN s
                            ELSE SubSeq(s, 1, i - 1) \o new \o Replace(Suffix(s, i + Len(old)), old, new)

RECURSIVE StripLeft(_)
StripLeft(s) == IF Len(s) > 0 /\ IsSpace(Char(s, 1)) THEN StripLeft(Suffix(s, 2)) ELSE s

RECURSIVE StripRight(_)
StripRight(s) == IF Len(s) > 0 /\ IsSpace(Char(s, Len(s))) THEN StripRight(SubSeq(s, 1, Len(s) - 1)) ELSE s

\* str.strip()
Strip(s) == StripRight(StripLeft(s))

RECURSIVE KeepAlnumSpaceIn(_, _, _)
\* characters lo..hi of s that are a-z, 0-9 or white space
KeepAlnumSpaceIn(s, lo, hi) ==
    IF lo > hi THEN ""
    ELSE IF lo = hi
         THEN (IF IsLowerAlnum(Char(s, lo)) \/ IsSpace(Char(s, lo)) THEN Char(s, lo) ELSE "")
    ELSE KeepAlnumSpaceIn(s, lo, (lo + hi) \div 2) \o KeepAlnumSpaceIn(s, (lo + hi) \div 2 + 1, hi)

\* re.sub(r'[^a-z0-9\s]', '', s)
KeepAlnumSpace(s) == KeepAlnumSpaceIn(s, 1, Len(s))

RECURSIVE CollapseSpacesIn(_, _, _)
\* characters lo..hi of s, one space for the first character of each run of
\* white space and nothing for the others
CollapseSpacesIn(s, lo, hi) ==
    IF lo > hi THEN ""
    ELSE IF lo = hi
         THEN (IF ~IsSpace(Char(s, lo)) THEN Char(s, lo)
               ELSE IF lo > 1 /\ IsSpace(Char(s, lo - 1)) THEN "" ELSE " ")
    ELSE CollapseSpacesIn(s, lo, (lo + hi) \div 2) \o CollapseSpacesIn(s, (lo + hi) \div 2 + 1, hi)

\* re.sub(r'\s+', ' ', s)
CollapseSpaces(s) == CollapseSpacesIn(s, 1, Len(s))

\* str.split(): the whitespace-separated words, in order
Split(s) ==
    LET starts == {i \in 1..Len(s) : ~IsSpace(Char(s, i)) /\ (i = 1 \/ IsSpace(Char(s, i - 1)))}
        ends == {i \in 1..Len(s) : ~IsSpace(Char(s, i)) /\ (i = Len(s) \/ IsSpace(Char(s, i + 1)))}
        Nth(set, r) == CHOOSE i \in set : Cardinality({j \in set : j < i}) = r - 1
    IN  [r \in 1..Cardinality(starts) |-> SubSeq(s, Nth(starts, r), Nth(ends, r))]

Range(seq) == {seq[i] : i \in 1..Len(seq)}

(***************************************************************************)
(* Team aliases, normalize_name, extract_teams_from_text                   *)
(***************************************************************************)
\* the dict in insertion order; the second "wolves" entry of the source
\* overwrites the value of the first and keeps its position
TEAM_ALIASES == <<
    <<"lakers", "los angeles lakers">>, <<"celtics", "boston celtics">>, <<"warriors", "golden state warriors">>,
    <<"knicks", "new york knicks">>, <<"nets", "brooklyn nets">>, <<"76ers", "philadelphia 76ers">>,
    <<"sixers", "philadelphia 76ers">>, <<"heat", "miami heat">>, <<"bucks", "milwaukee bucks">>,
    <<"suns", "phoenix suns">>, <<"mavs", "dallas mavericks">>, <<"mavericks", "dallas mavericks">>,
    <<"nuggets", "denver nuggets">>, <<"clippers", "la clippers">>, <<"la clippers", "los angeles clippers">>,
    <<"thunder", "oklahoma city thunder">>, <<"okc", "oklahoma city thunder">>, <<"grizzlies", "memphis grizzlies">>,
    <<"cavs", "cleveland cavaliers">>, <<"cavaliers", "cleveland cavaliers">>, <<"wolves", "wolverhampton">>,
    <<"timberwolves", "minnesota timberwolves">>, <<"kings", "sacramento kings">>, <<"pelicans", "new orleans pelicans">>,
    <<"hawks", "atlanta hawks">>, <<"bulls", "chicago bulls">>, <<"raptors", "toronto raptors">>,
    <<"magic", "orlando magic">>, <<"pacers", "indiana pacers">>, <<"hornets", "charlotte hornets">>,
    <<"wizards", "washington wizards">>, <<"pistons", "detroit pistons">>, <<"blazers", "portland trail blazers">>,
    <<"trail blazers", "portland trail blazers">>, <<"spurs", "san antonio spurs">>, <<"rockets", "houston rockets">>,
    <<"jazz", "utah jazz">>, <<"chiefs", "kansas city chiefs">>, <<"eagles", "philadelphia eagles">>,
    <<"bills", "buffalo bills">>, <<"ravens", "baltimore ravens">>, <<"lions", "detroit lions">>,
    <<"49ers", "san francisco 49ers">>, <<"niners", "san francisco 49ers">>, <<"cowboys", "dallas cowboys">>,
    <<"dolphins", "miami dolphins">>, <<"bengals", "cincinnati bengals">>, <<"steelers", "pittsburgh steelers">>,
    <<"packers", "green bay packers">>, <<"texans", "houston texans">>, <<"seahawks", "seattle seahawks">>,
    <<"rams", "los angeles rams">>, <<"chargers", "los angeles chargers">>, <<"jaguars", "jacksonville jaguars">>,
    <<"vikings", "minnesota vikings">>, <<"colts", "indianapolis colts">>, <<"saints", "new orleans saints">>,
    <<"bears", "chicago bears">>, <<"broncos", "denver broncos">>, <<"raiders", "las vegas raiders">>,
    <<"cardinals", "arizona cardinals">>, <<"falcons", "atlanta falcons">>, <<"commanders", "washington commanders">>,
    <<"panthers", "carolina panthers">>, <<"giants", "new york giants">>, <<"jets", "new york jets">>,
    <<"browns", "cleveland browns">>, <<"patriots", "new england patriots">>, <<"titans", "tennessee titans">>,
    <<"yankees", "new york yankees">>, <<"dodgers", "los angeles dodgers">>, <<"astros", "houston astros">>,
    <<"braves", "atlanta braves">>, <<"mets", "new york mets">>, <<"phillies", "philadelphia phillies">>,
    <<"padres", "san diego padres">>, <<"cubs", "chicago cubs">>, <<"red sox", "boston red sox">>,
    <<"blue jays", "toronto blue jays">>, <<"guardians", "cleveland guardians">>, <<"orioles", "baltimore orioles">>,
    <<"twins", "minnesota twins">>, <<"mariners", "seattle mariners">>, <<"rangers", "texas rangers">>,
    <<"rays", "tampa bay rays">>, <<"brewers", "milwaukee brewers">>, <<"diamondbacks", "arizona diamondbacks">>,
    <<"d-backs", "arizona diamondbacks">>, <<"pirates", "pittsburgh pirates">>, <<"reds", "cincinnati reds">>,
    <<"white sox", "chicago white sox">>, <<"royals", "kansas city royals">>, <<"rockies", "colorado rockies">>,
    <<"angels", "los angeles angels">>, <<"tigers", "detroit tigers">>, <<"nationals", "washington nationals">>,
    <<"marlins", "miami marlins">>, <<"athletics", "oakland athletics">>, <<"bruins", "boston bruins">>,
    <<"maple leafs", "toronto maple leafs">>, <<"oilers", "edmonton oilers">>, <<"avalanche", "colorado avalanche">>,
    <<"hurricanes", "carolina hurricanes">>, <<"wild", "minnesota wild">>, <<"canucks", "vancouver canucks">>,
    <<"stars", "dallas stars">>, <<"penguins", "pittsburgh penguins">>, <<"lightning", "tampa bay lightning">>,
    <<"blackhawks", "chicago blackhawks">>, <<"red wings", "detroit red wings">>, <<"flames", "calgary flames">>,
    <<"predators", "nashville predators">>, <<"capitals", "washington capitals">>, <<"senators", "ottawa senators">>,
    <<"sabres", "buffalo sabres">>, <<"islanders", "new york islanders">>, <<"flyers", "philadelphia flyers">>,
    <<"coyotes", "utah hockey club">>, <<"kraken", "seattle kraken">>, <<"blue jackets", "columbus blue jackets">>,
    <<"ducks", "anaheim ducks">>, <<"sharks", "san jose sharks">>, <<"devils", "new jersey devils">>,
    <<"los angeles l", "los angeles lakers">>, <<"los angeles c", "la clippers">>, <<"boston", "boston celtics">>,
    <<"golden state", "golden state warriors">>, <<"new york", "new york knicks">>, <<"brooklyn", "brooklyn nets">>,
    <<"philadelphia", "philadelphia 76ers">>, <<"miami", "miami heat">>, <<"milwaukee", "milwaukee bucks">>,
    <<"phoenix", "phoenix suns">>, <<"dallas", "dallas mavericks">>, <<"denver", "denver nuggets">>,
    <<"oklahoma city", "oklahoma city thunder">>, <<"memphis", "memphis grizzlies">>, <<"cleveland", "cleveland cavaliers">>,
    <<"minnesota", "minnesota timberwolves">>, <<"sacramento", "sacramento kings">>, <<"new orleans", "new orleans pelicans">>,
    <<"atlanta", "atlanta hawks">>, <<"chicago", "chicago bulls">>, <<"toronto", "toronto raptors">>,
    <<"orlando", "orlando magic">>, <<"indiana", "indiana pacers">>, <<"charlotte", "charlotte hornets">>,
    <<"washington", "washington wizards">>, <<"detroit", "detroit pistons">>, <<"portland", "portland trail blazers">>,
    <<"san antonio", "san antonio spurs">>, <<"houston", "houston rockets">>, <<"utah", "utah jazz">>,
    <<"kansas city", "kansas city chiefs">>, <<"buffalo", "buffalo bills">>, <<"baltimore", "baltimore ravens">>,
    <<"san francisco", "san francisco 49ers">>, <<"cincinnati", "cincinnati bengals">>, <<"pittsburgh", "pittsburgh steelers">>,
    <<"green bay", "green bay packers">>, <<"seattle", "seattle seahawks">>, <<"jacksonville", "jacksonville jaguars">>,
    <<"las vegas", "las vegas raiders">>, <<"carolina", "carolina panthers">>, <<"tennessee", "tennessee titans">>,
    <<"new england", "new england patriots">>, <<"edmonton", "edmonton oilers">>, <<"colorado", "colorado avalanche">>,
    <<"vancouver", "vancouver canucks">>, <<"tampa bay", "tampa bay lightning">>, <<"calgary", "calgary flames">>,
    <<"nashville", "nashville predators">>, <<"ottawa", "ottawa senators">>, <<"columbus", "columbus blue jackets">>,
    <<"anaheim", "anaheim ducks">>, <<"san jose", "san jose sharks">>, <<"new jersey", "new jersey devils">>,
    <<"winnipeg", "winnipeg jets">>, <<"vegas", "vegas golden knights">>, <<"liverpool", "liverpool">>,
    <<"manchester city", "manchester city">>, <<"manchester united", "manchester united">>, <<"arsenal", "arsenal">>,
    <<"chelsea", "chelsea">>, <<"tottenham", "tottenham">>, <<"aston villa", "aston villa">>,
    <<"nottingham", "nottingham forest">>, <<"fulham", "fulham">>, <<"brentford", "brentford">>,
    <<"brighton", "brighton">>, <<"crystal palace", "crystal palace">>, <<"everton", "everton">>,
    <<"west ham", "west ham">>, <<"bournemouth", "bournemouth">>, <<"leicester", "leicester city">>,
    <<"southampton", "southampton">>, <<"ipswich", "ipswich town">>
    >>

AliasKeys == {TEAM_ALIASES[i][1] : i \in 1..Len(TEAM_ALIASES)}

AliasValue(key) == TEAM_ALIASES[CHOOSE i \in 1..Len(TEAM_ALIASES) : TEAM_ALIASES[i][1] = key][2]

\* "if alias in name: name = name.replace(alias, full)" for the i-th alias
ReplaceAlias(nm, i) == IF Contains(nm, TEAM_ALIASES[i][1])
                       THEN Replace(nm, TEAM_ALIASES[i][1], TEAM_ALIASES[i][2])
                       ELSE nm

RECURSIVE ReplaceAliasesIn(_, _, _)
\* "for alias, full in TEAM_ALIASES.items()": aliases lo..hi in dict order
\* (the range is halved, and the left half evaluated first, to keep the
\* evaluation shallow)
ReplaceAliasesIn(nm, lo, hi) ==
    IF lo = hi THEN ReplaceAlias(nm, lo)
    ELSE LET mid == (lo + hi) \div 2
             left == ReplaceAliasesIn(nm, lo, mid)
         IN  IF Len(left) >= 0 THEN ReplaceAliasesIn(left, mid + 1, hi) ELSE left

\* the body of normalize_name
NormalizeUncached(nm) ==
    IF nm = "" THEN ""
    ELSE LET cleaned == CollapseSpaces(KeepAlnumSpace(Strip(Lower(nm))))
         IN  IF cleaned \in AliasKeys THEN AliasValue(cleaned)
             ELSE Strip(ReplaceAliasesIn(cleaned, 1, Len(TEAM_ALIASES)))

\* names that are normalized again and again: the team labels of the
\* prediction quotes and the outcome names of the sportsbook quotes
CachedNames == {"Boston", "Los Angeles L", "Boston Celtics", "Los Angeles Lakers", "Over", "Under"}

\* "@lru_cache(maxsize=4096)": the values kept for the cached names
NormalizeCache == [nm \in CachedNames |-> NormalizeUncached(nm)]

normalize_name(nm) ==
    IF nm \in CachedNames THEN NormalizeCache[nm] ELSE NormalizeUncached(nm)

\* the i-th alias appended even when its full name was found already
ExtractAliasNoDedup(text, found, i) ==
    IF Contains(text, TEAM_ALIASES[i][1]) THEN Append(found, TEAM_ALIASES[i][2]) ELSE found

\* "if alias in text: if full not in found: found.append(full)" for the i-th alias
ExtractAlias(text, found, i) ==
    IF Contains(text, TEAM_ALIASES[i][1]) /\ TEAM_ALIASES[i][2] \notin Range(found)
    THEN Append(found, TEAM_ALIASES[i][2]) ELSE found

RECURSIVE ExtractTeamsIn(_, _, _, _)
ExtractTeamsIn(text, found, lo, hi) ==
    IF lo = hi THEN ExtractAlias(text, found, lo)
    ELSE LET mid == (lo + hi) \div 2
             left == ExtractTeamsIn(text, found, lo, mid)
         IN  IF Len(left) >= 0 THEN ExtractTeamsIn(text, left, mid + 1, hi) ELSE left

extract_teams_from_text(text) == ExtractTeamsIn(Lower(text), <<>>, 1, Len(TEAM_ALIASES))

(***************************************************************************)
(* Numbers in text: point lines are kept in thousandths                    *)
(***************************************************************************)
PointScale == 10^3
\* None, for an optional number
NoPoint == -(2^30)

DigitVal(c) == CharPos(DigitChars, c) - 1

\* length of the run of digits of s starting at position i
RECURSIVE DigitRun(_, _)
DigitRun(s, i) == IF i <= Len(s) /\ IsDigit(Char(s, i)) THEN 1 + DigitRun(s, i + 1) ELSE 0

RECURSIVE ParseDigits(_, _)
\* int() of a string of digits
ParseDigits(s, acc) == IF s = "" THEN acc ELSE ParseDigits(Suffix(s, 2), acc * 10 + DigitVal(Char(s, 1)))

\* float() of "ddd" or "ddd.ddd", in thousandths (further decimals dropped)
ParseFloat(s) == LET n == DigitRun(s, 1)
                     frac == SubSeq(s, n + 2, Len(s))
                     f3 == SubSeq(frac \o "000", 1, 3)
                 IN  ParseDigits(SubSeq(s, 1, n), 0) * PointScale + ParseDigits(f3, 0)

RECURSIVE IntStr(_)
\* str() of a non-negative int
IntStr(n) == IF n < 10 THEN Char(DigitChars, n + 1)
             ELSE IntStr(n \div 10) \o Char(DigitChars, (n % 10) + 1)

\* the decimals of f thousandths, shortest form
FracStr(f) == IF f % 100 = 0 THEN IntStr(f \div 100)
              ELSE IF f % 10 = 0 THEN IntStr(f \div 100) \o IntStr((f \div 10) % 10)
              ELSE IntStr(f \div 100) \o IntStr((f \div 10) % 10) \o IntStr(f % 10)

\* str() of a float: "215.5", "216.0", "-5.5"
FloatStr(x) == (IF x < 0 THEN "-" ELSE "") \o IntStr(Abs(x) \div PointScale)
               \o "." \o FracStr(Abs(x) % PointScale)

(***************************************************************************)
(* Sport category and market subtype                                       *)
(***************************************************************************)
SPORT_KEY_TO_CATEGORY == <<
    <<"basketball_nba", "nba">>, <<"americanfootball_nfl", "nfl">>, <<"baseball_mlb", "mlb">>,
    <<"icehockey_nhl", "nhl">>, <<"soccer_usa_mls", "soccer">>, <<"soccer_epl", "soccer">>,
    <<"mma_mixed_martial_arts", "mma">> >>

SPORT_CATEGORY_KEYWORDS == <<
    <<"nba", {"nba", "basketball"}>>,
    <<"nfl", {"nfl", "football", "touchdowns", "yards"}>>,
    <<"mlb", {"mlb", "baseball", "runs"}>>,
    <<"nhl", {"nhl", "hockey", "stanley cup"}>>,
    <<"soccer", {"soccer", "epl", "mls", "premier league"}>>,
    <<"mma", {"mma", "ufc"}>> >>

nba_teams == {
    "los angeles lakers", "boston celtics", "golden state warriors", "new york knicks",
    "brooklyn nets", "philadelphia 76ers", "miami heat", "milwaukee bucks",
    "phoenix suns", "dallas mavericks", "denver nuggets", "la clippers",
    "los angeles clippers", "oklahoma city thunder", "memphis grizzlies", "cleveland cavaliers",
    "minnesota timberwolves", "sacramento kings", "new orleans pelicans", "atlanta hawks",
    "chicago bulls", "toronto raptors", "orlando magic", "indiana pacers",
    "charlotte hornets", "washington wizards", "detroit pistons", "portland trail blazers",
    "san antonio spurs", "houston rockets", "utah jazz"}

nfl_teams == {
    "kansas city chiefs", "philadelphia eagles", "buffalo bills", "baltimore ravens",
    "detroit lions", "san francisco 49ers", "dallas cowboys", "miami dolphins",
    "cincinnati bengals", "pittsburgh steelers", "green bay packers", "houston texans",
    "seattle seahawks", "los angeles rams", "los angeles chargers", "jacksonville jaguars",
    "minnesota vikings", "indianapolis colts", "new orleans saints", "chicago bears",
    "denver broncos", "las vegas raiders", "arizona cardinals", "atlanta falcons",
    "washington commanders", "carolina panthers", "new york giants", "new york jets",
    "cleveland browns", "new england patriots", "tennessee titans"}

mlb_teams == {
    "new york yankees", "los angeles dodgers", "houston astros", "atlanta braves",
    "new york mets", "philadelphia phillies", "san diego padres", "chicago cubs",
    "boston red sox", "toronto blue jays", "cleveland guardians", "baltimore orioles",
    "minnesota twins", "seattle mariners", "texas rangers", "tampa bay rays",
    "milwaukee brewers", "arizona diamondbacks", "pittsburgh pirates", "cincinnati reds",
    "chicago white sox", "kansas city royals", "colorado rockies", "los angeles angels",
    "detroit tigers", "washington nationals", "miami marlins", "oakland athletics"}

nhl_teams == {
    "boston bruins", "toronto maple leafs", "edmonton oilers", "colorado avalanche",
    "carolina hurricanes", "minnesota wild", "vancouver canucks", "dallas stars",
    "pittsburgh penguins", "tampa bay lightning", "chicago blackhawks", "detroit red wings",
    "calgary flames", "nashville predators", "washington capitals", "ottawa senators",
    "buffalo sabres", "new york islanders", "philadelphia flyers", "utah hockey club",
    "seattle kraken", "columbus blue jackets", "anaheim ducks", "san jose sharks",
    "new jersey devils"}

\* dict.get(key, default) on a sequence of <<key, value>> pairs
Lookup(table, key, default) ==
    IF \E i \in 1..Len(table) : table[i][1] = key
    THEN table[CHOOSE i \in 1..Len(table) : table[i][1] = key][2]
    ELSE default

\* TEAM_TO_SPORT[team]; "" when the team is in none of the four leagues
\* (later assignments of the source overwrite earlier ones)
TEAM_TO_SPORT(team) == IF team \in nhl_teams THEN "nhl"
                       ELSE IF team \in mlb_teams THEN "mlb"
                       ELSE IF team \in nfl_teams THEN "nfl"
                       ELSE IF team \in nba_teams THEN "nba"
                       ELSE ""

\* first element of seq satisfying Test, or default
FirstWhere(seq, Test(_), default) ==
    IF \E i \in 1..Len(seq) : Test(seq[i])
    THEN seq[CHOOSE i \in 1..Len(seq) : Test(seq[i]) /\ \A j \in 1..(i - 1) : ~Test(seq[j])]
    ELSE default

\* _detect_sport_category; "" stands for None
detect_sport_category(text) ==
    LET text_lower == Lower(text)
        KwHit(entry) == \E kw \in entry[2] : Contains(text_lower, kw)
        InLeague(team) == TEAM_TO_SPORT(team) # ""
    IN  IF \E i \in 1..Len(SPORT_CATEGORY_KEYWORDS) : KwHit(SPORT_CATEGORY_KEYWORDS[i])
        THEN FirstWhere(SPORT_CATEGORY_KEYWORDS, KwHit, <<"", {}>>)[1]
        ELSE TEAM_TO_SPORT(FirstWhere(extract_teams_from_text(text), InLeague, ""))

SERIES_MARKET_SUBTYPE == <<
    <<"KXNBAGAME", "h2h">>, <<"KXNFLGAME", "h2h">>, <<"KXMLBGAME", "h2h">>,
    <<"KXNHLGAME", "h2h">>, <<"KXUFCFIGHT", "h2h">>, <<"KXMMAGAME", "h2h">>,
    <<"KXEPLGAME", "h2h">>, <<"KXMLSGAME", "h2h">>,
    <<"KXNBASPREAD", "winning_margin">>, <<"KXNFLSPREAD", "winning_margin">>,
    <<"KXMLBSPREAD", "winning_margin">>, <<"KXNHLSPREAD", "winning_margin">>,
    <<"KXNBATOTAL", "totals">>, <<"KXNFLTOTAL", "totals">>, <<"KXEPLTOTAL", "totals">>,
    <<"KXNBA1HTOTAL", "1h_totals">>,
    <<"KXNBAPTS", "player_props">> >>

PlayerMarkets == {"player_points", "player_rebounds", "player_assists", "player_threes"}

\* a table that lets a winning-margin market meet sportsbook spreads
MarketTypeCompatLax(subtype) ==
    CASE subtype = "h2h" -> {"h2h"}
      [] subtype = "spreads" -> {"spreads"}
      [] subtype = "totals" -> {"totals"}
      [] subtype = "winning_margin" -> {"spreads"}
      [] subtype = "1h_totals" -> {}
      [] subtype = "player_props" -> PlayerMarkets
      [] subtype = "futures" -> {}
      [] OTHER -> {"h2h", "spreads", "totals"} \cup PlayerMarkets

\* _MARKET_TYPE_COMPAT.get(subtype, _MARKET_TYPE_COMPAT["unknown"])
MARKET_TYPE_COMPAT(subtype) ==
    CASE subtype = "h2h" -> {"h2h"}
      [] subtype = "spreads" -> {"spreads"}
      [] subtype = "totals" -> {"totals"}
      [] subtype = "winning_margin" -> {}
      [] subtype = "1h_totals" -> {}
      [] subtype = "player_props" -> PlayerMarkets
      [] subtype = "futures" -> {}
      [] OTHER -> {"h2h", "spreads", "totals"} \cup PlayerMarkets

\* re.search(r'\bword\b', s), for a word made of word characters
HasWord(s, word) ==
    \E i \in 1..(Len(s) - Len(word) + 1) :
        /\ OccursAt(s, word, i)
        /\ (i = 1 \/ ~IsWordChar(Char(s, i - 1)))
        /\ (i + Len(word) > Len(s) \/ ~IsWordChar(Char(s, i + Len(word))))

\* re.search of "first.*second": second after first with no newline between
HasThen(s, first, second) ==
    \E i \in 1..Len(s), j \in 1..Len(s) :
        /\ OccursAt(s, first, i)
        /\ j >= i + Len(first)
        /\ OccursAt(s, second, j)
        /\ ~Contains(SubSeq(s, i + Len(first), j - 1), "\n")

\* re.search of r"win.*20\d\d"
HasWinYear(s) ==
    \E i \in 1..Len(s), j \in 1..Len(s) :
        /\ OccursAt(s, "win", i)
        /\ j >= i + 3
        /\ OccursAt(s, "20", j)
        /\ j + 3 <= Len(s) /\ IsDigit(Char(s, j + 2)) /\ IsDigit(Char(s, j + 3))
        /\ ~Contains(SubSeq(s, i + 3, j - 1), "\n")

\* _FUTURES_RE.search(question), case-insensitive
FUTURES_RE(question) ==
    LET s == Lower(question)
    IN  \/ \E lit \in {"championship", "stanley cup", "world series", "super bowl",
                       "mvp", "most valuable", "nba finals"} : Contains(s, lit)
        \/ HasThen(s, "make", "playoffs")
        \/ HasWinYear(s)
        \/ HasThen(s, "win", "title")
        \/ HasThen(s, "win", "division")
        \/ HasThen(s, "win", "conference")

PointKeywords == {"over", "under", "spread", "cover", "+", "-"}

RECURSIVE SpaceRun(_, _)
SpaceRun(s, i) == IF i <= Len(s) /\ IsSpace(Char(s, i)) THEN 1 + SpaceRun(s, i + 1) ELSE 0

\* position of the number when _POINT_LINE_RE matches at position i, else 0
PointMatchAt(s, i) ==
    IF \E kw \in PointKeywords : OccursAt(s, kw, i)
    THEN LET kw == CHOOSE k \in PointKeywords : OccursAt(s, k, i)
             d == i + Len(kw) + SpaceRun(s, i + Len(kw))
         IN  IF DigitRun(s, d) > 0 THEN d ELSE 0
    ELSE 0

\* _POINT_LINE_RE.search(text): position of group 1 of the leftmost match, else 0
POINT_LINE_RE(text) ==
    LET Leftmost(s, hits) ==
            IF hits = {} THEN 0 ELSE PointMatchAt(s, CHOOSE i \in hits : \A j \in hits : i <= j)
        Search(s) == Leftmost(s, {i \in 1..Len(s) : PointMatchAt(s, i) > 0})
    IN  Search(Lower(text))

\* group 1: \d+(?:\.\d+)?
PointGroup(text, d) ==
    LET n == DigitRun(text, d)
        m == IF d + n <= Len(text) /\ Char(text, d + n) = "." THEN DigitRun(text, d + n + 1) ELSE 0
    IN  SubSeq(text, d, d + n - 1 + (IF m > 0 THEN m + 1 ELSE 0))

\* _extract_point_line
extract_point_line(text) ==
    LET Parsed(d) == IF d = 0 THEN NoPoint ELSE ParseFloat(PointGroup(text, d))
    IN  Parsed(POINT_LINE_RE(text))

StatKeywords == {"points", "rebounds", "assists", "threes", "strikeouts"}

\* the rules with the moneyline rule tried first
InferWinFirst(question) ==
    LET q == Lower(question)
        has_over == HasWord(q, "over")
        has_under == HasWord(q, "under")
    IN  IF \E kw \in {"win", "winner", "beat", "defeat"} : Contains(q, kw) THEN "h2h"
        ELSE IF FUTURES_RE(question) THEN "futures"
        ELSE IF Contains(q, "spread") \/ Contains(q, "cover") THEN "spreads"
        ELSE IF Contains(q, "total") /\ (has_over \/ has_under) THEN "totals"
        ELSE IF (\E kw \in StatKeywords : Contains(q, kw)) /\ (has_over \/ has_under) THEN "player_props"
        ELSE IF (has_over \/ has_under) /\ POINT_LINE_RE(question) > 0 THEN "totals"
        ELSE "unknown"

\* _infer_market_subtype
infer_market_subtype(question) ==
    LET q == Lower(question)
        has_over == HasWord(q, "over")
        has_under == HasWord(q, "under")
    IN  IF FUTURES_RE(question) THEN "futures"
        ELSE IF Contains(q, "spread") \/ Contains(q, "cover") THEN "spreads"
        ELSE IF Contains(q, "total") /\ (has_over \/ has_under) THEN "totals"
        ELSE IF (\E kw \in StatKeywords : Contains(q, kw)) /\ (has_over \/ has_under) THEN "player_props"
        ELSE IF (has_over \/ has_under) /\ POINT_LINE_RE(question) > 0 THEN "totals"
        ELSE IF \E kw \in {"win", "winner", "beat", "defeat"} : Contains(q, kw) THEN "h2h"
        ELSE "unknown"

(***************************************************************************)
(* Specification SpecInfer: _infer_market_subtype on question texts        *)
(***************************************************************************)
MaxPhrases == 2

Phrases == <<"Will the Lakers win", "the NBA Finals", "cover", "the spread -5.5", "total",
             "over 215.5", "under", "points", "beat the Celtics", "Lakers vs Celtics">>

RECURSIVE QuestionsOfLen(_)
QuestionsOfLen(n) == IF n = 1 THEN Range(Phrases)
                     ELSE {a \o " " \o b : a \in QuestionsOfLen(n - 1), b \in Range(Phrases)}

Questions == UNION {QuestionsOfLen(n) : n \in 1..MaxPhrases}

InferIdle == infer_question = "" /\ infer_subtype = "idle"

InitInfer == infer_question \in Questions /\ infer_subtype = "pending"

InferSubtype ==
    /\ infer_subtype = "pending"
    /\ infer_subtype' = infer_market_subtype(infer_question)
    /\ UNCHANGED <<infer_question, arbVars, normVars, matchVars, fairVars, scanVars, repeatVars, evVars,
                   pairVars, crossVars, teamsVars, configVars>>

Inferred == infer_subtype \notin {"idle", "pending"}

\* the rules in the order of the claim: <<the rule applies, its subtype>>
SubtypeRules(text) ==
    LET OverUnder(q) == HasWord(q, "over") \/ HasWord(q, "under")
        Rules(q) == <<
            <<FUTURES_RE(text), "futures">>,
            <<Contains(q, "spread") \/ Contains(q, "cover"), "spreads">>,
            <<Contains(q, "total") /\ OverUnder(q), "totals">>,
            <<(\E kw \in StatKeywords : Contains(q, kw)) /\ OverUnder(q), "player_props">>,
            <<OverUnder(q) /\ extract_point_line(text) # NoPoint, "totals">>,
            <<\E kw \in {"win", "winner", "beat", "defeat"} : Contains(q, kw), "h2h">>,
            <<TRUE, "unknown">> >>
    IN  Rules(Lower(text))

\* the subtype of the first rule that applies
FirstRule(rules) == rules[CHOOSE i \in 1..Len(rules) : rules[i][1] /\ \A j \in 1..(i - 1) : ~rules[j][1]][2]

\* C24: the subtype is that of the first rule that applies, in the order
\* futures, spread/cover, total + over/under, stat keyword + over/under,
\* over/under + line, win/winner/beat/defeat, unknown; futures phrasing
\* gives futures even with "win" in the question, and a question with
\* "cover" that no earlier rule takes is spreads, never totals.
C24_FirstRule ==
    Inferred =>
        /\ infer_subtype = FirstRule(SubtypeRules(infer_question))
        /\ FUTURES_RE(infer_question) => infer_subtype = "futures"
        /\ Contains(Lower(infer_question), "cover") => infer_subtype \in {"futures", "spreads"}
        /\ (Contains(Lower(infer_question), "cover") /\ ~FUTURES_RE(infer_question)) => infer_subtype = "spreads"

\* a futures question that contains "win"
C24_Witness ==
    /\ Inferred
    /\ FUTURES_RE(infer_question) /\ Contains(Lower(infer_question), "win")
    /\ infer_subtype = "futures"

(***************************************************************************)
(* Specification SpecNorm: normalize_name applied once and twice           *)
(***************************************************************************)
MaxWords == 2

NameWords == <<"Lakers", "Celtics", "Clippers", "LA Clippers", "Wolves", "Arsenal",
               "Boston", "New York Yankees", "vs.", "hello">>

RECURSIVE NamesOfLen(_)
NamesOfLen(n) == IF n = 1 THEN Range(NameWords)
                 ELSE {a \o " " \o b : a \in NamesOfLen(n - 1), b \in Range(NameWords)}

RawNames == UNION {NamesOfLen(n) : n \in 1..MaxWords} \cup {"", "  Lakers  ", "D-Backs"}

NormIdle == name = "" /\ norm_pc = "idle" /\ once = "" /\ twice = ""

InitNorm ==
    /\ name \in RawNames
    /\ norm_pc = "raw"
    /\ once = ""
    /\ twice = ""

\* normalize_name(name)
NormalizeOnce ==
    /\ norm_pc = "raw"
    /\ once' = normalize_name(name)
    /\ norm_pc' = "once"
    /\ UNCHANGED <<name, twice, notNorm>>

\* normalize_name(normalize_name(name))
NormalizeTwice ==
    /\ norm_pc = "once"
    /\ twice' = normalize_name(once)
    /\ norm_pc' = "twice"
    /\ UNCHANGED <<name, once, notNorm>>

\* C3: normalize_name is idempotent, also on an alias whose canonical form
\* is itself an alias or contains an alias.
C3_Idempotent == norm_pc = "twice" => twice = once

(***************************************************************************)
(* Specification SpecTeams: extract_teams_from_text on the same texts      *)
(***************************************************************************)
NotExtracted == <<"pending">>

TeamsIdle == teams_text = "" /\ teams_found = NotExtracted

InitTeams == teams_text \in RawNames /\ teams_found = NotExtracted

ExtractTeams ==
    /\ teams_found = NotExtracted
    /\ teams_found' = extract_teams_from_text(teams_text)
    /\ UNCHANGED <<teams_text, arbVars, normVars, matchVars, fairVars, scanVars, repeatVars, evVars,
                   pairVars, crossVars, inferVars, configVars>>

Extracted == teams_found # NotExtracted

\* the positions at which an alias occurs in a text
AliasAt(text, alias) == {i \in 1..Len(text) : OccursAt(text, alias, i)}

\* the occurrence of alias at position i lies inside an occurrence of a
\* longer alias
InsideLonger(text, alias, i) ==
    \E k \in 1..Len(TEAM_ALIASES) :
        /\ Len(TEAM_ALIASES[k][1]) > Len(alias)
        /\ \E j \in AliasAt(text, TEAM_ALIASES[k][1]) :
              j <= i /\ i + Len(alias) <= j + Len(TEAM_ALIASES[k][1])

\* a canonical name is owed to an alias occurrence that no longer alias
\* occurrence covers
MostSpecific(text, full) ==
    \E k \in 1..Len(TEAM_ALIASES) :
        /\ TEAM_ALIASES[k][2] = full
        /\ \E i \in AliasAt(text, TEAM_ALIASES[k][1]) : ~InsideLonger(text, TEAM_ALIASES[k][1], i)

\* C27: each canonical name is returned at most once, and where alias
\* occurrences overlap only the canonical name of the longest alias is
\* returned.
C27_LongestAlias ==
    Extracted =>
        /\ \A i, j \in 1..Len(teams_found) : teams_found[i] = teams_found[j] => i = j
        /\ \A i \in 1..Len(teams_found) : MostSpecific(Lower(teams_text), teams_found[i])

(***************************************************************************)
(* Specification SpecConfig: the config endpoint, GET, POST and DELETE     *)
(***************************************************************************)
KeyNames == {"odds_api_key", "oddspapi_key"}

\* the API keys a client stores; "" is a key that is not set
StoredKeys == {"", "abcd", "key12345", "abcd1234wxyz", "abcd5678wxyz"}

\* the values of the environment variable ODDS_API_KEY; "" when it is not set
EnvKeys == {"", "envk0000envk"}

\* k[:4] + "****" + k[-4:] if len(k) > 8 else "****"
Mask(k) == IF Len(k) > 8 THEN SubSeq(k, 1, 4) \o "****" \o SubSeq(k, Len(k) - 3, Len(k))
           ELSE "****"

\* DEFAULT_CONFIG, its two API keys
DefaultKeys == [kname \in KeyNames |-> ""]

NotAsked == [pending |-> "GET"]

ConfigIdle == cfg_db = DefaultKeys /\ cfg_env = "" /\ cfg_config = NotAsked /\ cfg_body = NotAsked

InitConfig ==
    /\ cfg_db = DefaultKeys
    /\ cfg_env \in EnvKeys
    /\ cfg_config = NotAsked
    /\ cfg_body = NotAsked

\* masked = dict(config), then a "<name>_masked" field for each key that is set
MaskedConfig(config) ==
    LET Set == {kname \in KeyNames : config[kname] # ""}
        Added == [f \in {kname \o "_masked" : kname \in Set} |->
                     Mask(config[CHOOSE kname \in Set : kname \o "_masked" = f])]
    IN  config @@ Added

\* POST: set_config for an API key of the request
ConfigPost ==
    \E kname \in KeyNames, value \in StoredKeys :
        /\ cfg_db' = [cfg_db EXCEPT ![kname] = value]
        /\ UNCHANGED <<cfg_env, cfg_config, cfg_body>>
        /\ UNCHANGED <<arbVars, normVars, matchVars, fairVars, scanVars, repeatVars, evVars, pairVars, crossVars, inferVars, teamsVars>>

\* DELETE: the row is removed, a later GET reads the default
ConfigDelete ==
    \E kname \in KeyNames :
        /\ cfg_db[kname] # ""
        /\ cfg_db' = [cfg_db EXCEPT ![kname] = DefaultKeys[kname]]
        /\ UNCHANGED <<cfg_env, cfg_config, cfg_body>>
        /\ UNCHANGED <<arbVars, normVars, matchVars, fairVars, scanVars, repeatVars, evVars, pairVars, crossVars, inferVars, teamsVars>>

\* api/config.py, handler.do_GET: ODDS_API_KEY overrides the stored odds_api_key
ApiGet ==
    /\ cfg_config' = IF cfg_env # "" THEN [cfg_db EXCEPT !["odds_api_key"] = cfg_env] ELSE cfg_db
    /\ cfg_body' = MaskedConfig(cfg_config')
    /\ UNCHANGED <<cfg_db, cfg_env>>
    /\ UNCHANGED <<arbVars, normVars, matchVars, fairVars, scanVars, repeatVars, evVars, pairVars, crossVars, inferVars, teamsVars>>

\* cgi-bin/config.py, main, method GET
CgiGet ==
    /\ cfg_config' = cfg_db
    /\ cfg_body' = MaskedConfig(cfg_db)
    /\ UNCHANGED <<cfg_db, cfg_env>>
    /\ UNCHANGED <<arbVars, normVars, matchVars, fairVars, scanVars, repeatVars, evVars, pairVars, crossVars, inferVars, teamsVars>>

Asked == cfg_body # NotAsked

\* C30: the response of a GET never contains a full API key, only its masked
\* form, and two keys with the same masked form give the same response.
C30_KeysMasked ==
    LET Hidden(config, body) ==
            \A kname \in KeyNames :
                config[kname] # ""
                    => /\ (kname \o "_masked") \in DOMAIN body
                       /\ body[kname \o "_masked"] = Mask(config[kname])
                       /\ \A f \in DOMAIN body : ~Contains(body[f], config[kname])
        SameResponse(config, body) ==
            \A kname \in KeyNames, other \in StoredKeys :
                (other # "" /\ config[kname] # "" /\ Mask(other) = Mask(config[kname]))
                    => MaskedConfig([config EXCEPT ![kname] = other]) = body
    IN  Asked => Hidden(cfg_config, cfg_body) /\ SameResponse(cfg_config, cfg_body)

NextConfig == ConfigPost \/ ConfigDelete \/ ApiGet \/ CgiGet

(***************************************************************************)
(* Quote records, as the fetchers build them                               *)
(***************************************************************************)
\* set(normalize_name(text).split())
TokenSet(text) == Range(Split(normalize_name(text)))

\* fetch_polymarket_sports: one parsed market
PolyEntry(id, question, description, outcomes, prices) ==
    [source |-> "polymarket", id |-> id, question |-> question, description |-> description,
     outcomes |-> outcomes, prices |-> prices,
     teams |-> extract_teams_from_text(question),
     tokens |-> TokenSet(question \o " " \o description),
     sport_category |-> detect_sport_category(question),
     market_subtype |-> infer_market_subtype(question),
     floor_strike |-> NoPoint, no_sub_title |-> ""]

\* KALSHI_SPORTS_SERIES: series ticker -> sport category
KALSHI_SPORTS_SERIES == <<
    <<"KXNBAGAME", "nba">>, <<"KXNBASPREAD", "nba">>, <<"KXNBATOTAL", "nba">>,
    <<"KXNBAPTS", "nba">>, <<"KXNBA1HTOTAL", "nba">>,
    <<"KXNFLGAME", "nfl">>, <<"KXNFLSPREAD", "nfl">>, <<"KXNFLTOTAL", "nfl">>,
    <<"KXMLBGAME", "mlb">>, <<"KXMLBSPREAD", "mlb">>,
    <<"KXNHLGAME", "nhl">>, <<"KXNHLSPREAD", "nhl">>,
    <<"KXUFCFIGHT", "mma">>, <<"KXMMAGAME", "mma">>,
    <<"KXEPLGAME", "soccer">>, <<"KXEPLTOTAL", "soccer">>, <<"KXMLSGAME", "soccer">> >>

\* fetch_kalshi_sports: one parsed market of a series
KalshiEntry(ticker, series_ticker, title, no_sub, subtitle, floor_strike, prices) ==
    [source |-> "kalshi", id |-> ticker, question |-> title,
     description |-> IF no_sub # "" THEN no_sub ELSE IF subtitle # "" THEN subtitle ELSE title,
     outcomes |-> <<"Yes", "No">>, prices |-> prices,
     teams |-> extract_teams_from_text(title),
     tokens |-> TokenSet(title \o " " \o no_sub),
     sport_category |-> Lookup(KALSHI_SPORTS_SERIES, series_ticker, ""),
     market_subtype |-> Lookup(SERIES_MARKET_SUBTYPE, series_ticker, "unknown"),
     floor_strike |-> floor_strike, no_sub_title |-> no_sub]

\* a commence_time that is missing; the others are minutes on the wall clock
NoTime == -1

\* fetch_sportsbook_odds: one outcome of one market of one bookmaker
SbEntry(bookmaker, sport_key, home, away, commence, market_key, outcome, point, description, prob) ==
    [source |-> "sportsbook", bookmaker |-> bookmaker, bookmaker_title |-> bookmaker,
     sport |-> sport_key, home_team |-> home, away_team |-> away, commence_time |-> commence,
     market_type |-> market_key, outcome_name |-> outcome, outcome_point |-> point,
     description |-> description, implied_prob |-> prob,
     teams |-> extract_teams_from_text(home \o " " \o away),
     tokens |-> TokenSet(away \o " " \o home \o " " \o outcome),
     sport_category |-> Lookup(SPORT_KEY_TO_CATEGORY, sport_key, "other"),
     event_name |-> away \o " @ " \o home]

(***************************************************************************)
(* try_match_prediction_to_sportsbook                                      *)
(***************************************************************************)
\* similarity_score_from_tokens: Jaccard index of two token sets
similarity_score_from_tokens(tokens_a, tokens_b) ==
    IF tokens_a = {} \/ tokens_b = {} THEN 0
    ELSE Div(Cardinality(tokens_a \cap tokens_b), Cardinality(tokens_a \cup tokens_b))

\* "if pt and st and (pt in st or st in pt)"
TeamNameMatch(pt, st) == pt # "" /\ st # "" /\ (Contains(st, pt) \/ Contains(pt, st))

\* the number of prediction teams that appear among the sportsbook teams,
\* each prediction team counted at most once
TeamMatches(pred_teams, sb_teams) ==
    Cardinality({i \in 1..Len(pred_teams) :
                    \E j \in 1..Len(sb_teams) : TeamNameMatch(pred_teams[i], sb_teams[j])})

GameSubtypes == {"h2h", "totals", "spreads", "winning_margin"}

IsGameMarket(pred, sb) ==
    LET question == Lower(pred.question)
    IN  \/ pred.market_subtype \in GameSubtypes
        \/ Contains(question, "winner")
        \/ Contains(question, "win")
        \/ sb.market_type \in {"h2h", "totals", "spreads"}

WrongGameLax(pred, sb) ==
    IsGameMarket(pred, sb) /\ Len(pred.teams) >= 2 /\ TeamMatches(pred.teams, sb.teams) < 1

\* "if is_game_market and len(pred_teams) >= 2: if team_matches < 2: continue"
WrongGame(pred, sb) ==
    IsGameMarket(pred, sb) /\ Len(pred.teams) >= 2 /\ TeamMatches(pred.teams, sb.teams) < 2

Min(a, b) == IF a <= b THEN a ELSE b

\* the score of one sportsbook entry, or -1 when the entry is skipped
MatchScore(pred, sb) ==
    LET question == Lower(pred.question)
        full_text == question \o " " \o Lower(pred.description)
        team_matches == TeamMatches(pred.teams, sb.teams)
        team_score == IF team_matches >= 2 THEN 6 * (One \div 10) ELSE 3 * (One \div 10)
        text_sim == similarity_score_from_tokens(pred.tokens, sb.tokens)
        player == IF sb.description # "" /\ Contains(full_text, Lower(sb.description))
                  THEN 4 * (One \div 10) ELSE 0
        line == IF sb.outcome_point # NoPoint /\ Contains(full_text, FloatStr(sb.outcome_point))
                THEN 2 * (One \div 10) ELSE 0
        kind == IF Contains(question, "over") /\ Lower(sb.outcome_name) = "over" THEN 15 * (One \div 100)
                ELSE IF Contains(question, "under") /\ Lower(sb.outcome_name) = "under" THEN 15 * (One \div 100)
                ELSE IF (Contains(question, "win") \/ Contains(question, "winner")) /\ sb.market_type = "h2h"
                     THEN One \div 10
                ELSE 0
    IN  IF WrongGame(pred, sb) THEN -1
        ELSE IF team_matches = 0 THEN -1
        ELSE team_score + Mul(text_sim, 3 * (One \div 10)) + player + line + kind

MIN_CONFIDENCE == 4 * (One \div 10)

\* list.sort(key=..., reverse=True) with keys[i] the key of seq[i]: stable,
\* equal keys keep their order
SortDesc(seq, keys) ==
    LET n == Len(seq)
        Rank(i) == 1 + Cardinality({j \in 1..n : keys[j] > keys[i] \/ (keys[j] = keys[i] /\ j < i)})
    IN  [r \in 1..n |-> seq[CHOOSE i \in 1..n : Rank(i) = r]]

Prefix(seq, n) == SubSeq(seq, 1, Min(n, Len(seq)))

try_match_prediction_to_sportsbook(pred, entries) ==
    LET Accepted(sb) == MatchScore(pred, sb) >= MIN_CONFIDENCE
        Candidate(sb) == [sportsbook_entry |-> sb, confidence |-> Min(MatchScore(pred, sb), One)]
        Best(found) == Prefix(SortDesc(found, [i \in 1..Len(found) |-> found[i].confidence]), 5)
        Found(kept) == Best([i \in 1..Len(kept) |-> Candidate(kept[i])])
    IN  Found(SelectSeq(entries, Accepted))

(***************************************************************************)
(* Quotes used by the specifications                                       *)
(***************************************************************************)
YesNo == <<"Yes", "No">>

\* Polymarket questions
PolyQuestions == <<
    "Will the Lakers beat the Celtics?",
    "Will the Lakers win tonight?",
    "Lakers vs Celtics: total points over 215.5?",
    "Will the Celtics win the NBA Finals?",
    "Will the Suns beat the Nuggets?",
    "Will the Lakers cover the spread -5.5 against the Celtics?",
    "Will LeBron James score over 25.5 points? Lakers vs Celtics",
    "Lakers, Celtics or Suns: highest scoring team" >>

PolyQuote(i, prices) == PolyEntry("0xpoly" \o IntStr(i), PolyQuestions[i], "", YesNo, prices)

\* Kalshi markets: <<ticker, series, title, no_sub_title, floor_strike>>
KalshiMarkets == <<
    <<"KXNBAGAME-LALBOS-BOS", "KXNBAGAME", "Los Angeles L at Boston Winner?", "Boston", NoPoint>>,
    <<"KXNBAGAME-LALBOS-LAL", "KXNBAGAME", "Los Angeles L at Boston Winner?", "Los Angeles L", NoPoint>>,
    <<"KXNBATOTAL-LALBOS-215", "KXNBATOTAL", "Los Angeles L at Boston: Total Points", "Over 215.5 points", 215500>>,
    <<"KXNBASPREAD-LALBOS-LAL5", "KXNBASPREAD", "Los Angeles L wins by over 5.5 points?",
      "Los Angeles L wins by over 5.5 points", 5500>> >>

KalshiQuote(i, prices) ==
    KalshiEntry(KalshiMarkets[i][1], KalshiMarkets[i][2], KalshiMarkets[i][3], KalshiMarkets[i][4],
                "", KalshiMarkets[i][5], prices)

\* sportsbook events: <<sport key, home, away, commence time>>
SbEvents == <<
    <<"basketball_nba", "Boston Celtics", "Los Angeles Lakers", 62>>,
    <<"basketball_nba", "Denver Nuggets", "Phoenix Suns", 1500>>,
    <<"basketball_nba", "Phoenix Suns", "Los Angeles Lakers", 2>>,
    <<"soccer_epl", "Chelsea", "Arsenal", NoTime>> >>

SbQuote(bookmaker, e, market_key, outcome, point, description, prob) ==
    SbEntry(bookmaker, SbEvents[e][1], SbEvents[e][2], SbEvents[e][3], SbEvents[e][4],
            market_key, outcome, point, description, prob)

(***************************************************************************)
(* Specification SpecMatch: one prediction quote against sportsbook quotes *)
(***************************************************************************)
MaxCand == 2

MatchPreds ==
    [i \in 1..Len(PolyQuestions) |-> PolyQuote(i, <<P4(5500), P4(4500)>>)]
    \o [i \in 1..Len(KalshiMarkets) |-> KalshiQuote(i, <<P4(5500), P4(4500)>>)]

MatchEntries == <<
    SbQuote("draftkings", 1, "h2h", "Boston Celtics", NoPoint, "", P4(4545)),
    SbQuote("fanduel", 1, "h2h", "Los Angeles Lakers", NoPoint, "", P4(5600)),
    SbQuote("draftkings", 1, "totals", "Over", 215500, "", P4(5000)),
    SbQuote("draftkings", 1, "totals", "Under", 215500, "", P4(5200)),
    SbQuote("draftkings", 1, "spreads", "Los Angeles Lakers", -5500, "", P4(5100)),
    SbQuote("draftkings", 1, "player_points", "Over", 25500, "LeBron James", P4(5300)),
    SbQuote("draftkings", 2, "h2h", "Denver Nuggets", NoPoint, "", P4(6000)),
    SbQuote("draftkings", 3, "h2h", "Los Angeles Lakers", NoPoint, "", P4(4000)),
    SbQuote("draftkings", 2, "totals", "Over", 215500, "", P4(5000)),
    SbQuote("draftkings", 4, "h2h", "Arsenal", NoPoint, "", P4(4000)) >>

\* the sub-lists of seq with at most n elements, in the order of seq
SubLists(seq, n) ==
    LET Pick(S) == LET F[k \in 0..Len(seq)] ==
                           IF k = 0 THEN <<>>
                           ELSE IF k \in S THEN Append(F[k - 1], seq[k]) ELSE F[k - 1]
                   IN  F[Len(seq)]
    IN  {Pick(S) : S \in {T \in SUBSET (1..Len(seq)) : Cardinality(T) <= n}}

NoMatches == <<[pending |-> TRUE]>>

MatchIdle == pred_market = [idle |-> TRUE] /\ candidates = <<>> /\ matches = NoMatches

InitMatch ==
    /\ pred_market \in Range(MatchPreds)
    /\ candidates \in SubLists(MatchEntries, MaxCand)
    /\ matches = NoMatches

\* matches = try_match_prediction_to_sportsbook(pred, candidates)
TryMatch ==
    /\ matches = NoMatches
    /\ matches' = try_match_prediction_to_sportsbook(pred_market, candidates)
    /\ UNCHANGED <<pred_market, candidates, notMatch>>

Matched == matches # NoMatches

\* the teams two quotes have in common
TeamOverlap(a, b) == Cardinality(Range(a.teams) \cap Range(b.teams))

\* C4: a game-specific prediction quote (h2h, totals, spreads,
\* winning_margin) with at least 2 teams never matches a sportsbook quote
\* with at least 2 teams when fewer than 2 teams overlap.
C4_WrongFixtureRejected ==
    Matched =>
        \A i \in 1..Len(matches) :
            LET sb == matches[i].sportsbook_entry
            IN  (pred_market.market_subtype \in GameSubtypes
                    /\ Len(pred_market.teams) >= 2 /\ Len(sb.teams) >= 2)
                => TeamOverlap(pred_market, sb) >= 2

\* a two-team moneyline quote matched with its own game while a quote of a
\* game sharing one team only was among the candidates and was dropped
C4_Witness ==
    /\ Matched
    /\ pred_market.market_subtype = "h2h" /\ Len(pred_market.teams) >= 2
    /\ Len(matches) = 1
    /\ \E j \in 1..Len(candidates) : TeamOverlap(pred_market, candidates[j]) = 1

\* the prediction quote is game-specific: subtype, or win/winner in the question
GameSpecific(pred) ==
    \/ pred.market_subtype \in GameSubtypes
    \/ Contains(Lower(pred.question), "win")
    \/ Contains(Lower(pred.question), "winner")

\* C5: for a game-specific market a candidate is rejected unless both teams
\* are matched on both sides; a game-specific quote with a single extracted
\* team never yields a candidate.
C5_BothTeamsRequired ==
    Matched =>
        \A i \in 1..Len(matches) :
            GameSpecific(pred_market) => TeamOverlap(pred_market, matches[i].sportsbook_entry) >= 2

\* C6: the team-match count is the same with the two team lists swapped.
C6_TeamCountSymmetric ==
    Matched =>
        \A j \in 1..Len(candidates) :
            TeamMatches(pred_market.teams, candidates[j].teams)
                = TeamMatches(candidates[j].teams, pred_market.teams)

\* lists of different lengths with a non-empty, partial overlap
C6_Witness ==
    /\ Matched
    /\ \E j \in 1..Len(candidates) :
          /\ Len(pred_market.teams) = 3 /\ Len(candidates[j].teams) = 2
          /\ TeamMatches(pred_market.teams, candidates[j].teams) = 1

(***************************************************************************)
(* Specification SpecTop: more accepted candidates than are returned       *)
(***************************************************************************)
MaxTop == 6

TopPreds == <<PolyQuote(7, <<P4(5500), P4(4500)>>), PolyQuote(1, <<P4(5500), P4(4500)>>)>>

TopEntries == <<
    SbQuote("draftkings", 1, "player_points", "Under", 25500, "LeBron James", P4(5000)),
    SbQuote("fanduel", 1, "player_points", "Under", 25500, "LeBron James", P4(5100)),
    SbQuote("betmgm", 1, "player_points", "Under", 25500, "LeBron James", P4(5200)),
    SbQuote("caesars", 1, "player_points", "Under", 25500, "LeBron James", P4(4900)),
    SbQuote("pointsbet", 1, "player_points", "Under", 25500, "LeBron James", P4(5050)),
    SbQuote("pinnacle", 1, "player_points", "Over", 25500, "LeBron James", P4(5300)),
    SbQuote("draftkings", 1, "h2h", "Boston Celtics", NoPoint, "", P4(4545)) >>

InitTop ==
    /\ pred_market \in Range(TopPreds)
    /\ candidates \in SubLists(TopEntries, MaxTop)
    /\ matches = NoMatches

\* the candidates that score at least 0.4 and were not returned
Discarded ==
    LET Returned_(found) == {found[i].sportsbook_entry : i \in 1..Len(found)}
        Left(kept) == {sb \in Range(candidates) : sb \notin kept}
        Accepted(sb) == MatchScore(pred_market, sb) >= MIN_CONFIDENCE
    IN  {sb \in Left(Returned_(matches)) : Accepted(sb)}

\* C21: at most 5 candidates are returned, in non-increasing order of
\* confidence, and no discarded candidate that scores at least 0.4 scores
\* strictly higher than a returned one.
C21_TopFive ==
    Matched =>
        /\ Len(matches) <= 5
        /\ \A i \in 1..(Len(matches) - 1) : matches[i].confidence >= matches[i + 1].confidence
        /\ \A sb \in Discarded : \A i \in 1..Len(matches) :
               MatchScore(pred_market, sb) <= MatchScore(pred_market, matches[i].sportsbook_entry)

(***************************************************************************)
(* build_fair_odds_index                                                   *)
(***************************************************************************)
\* the elements of a finite set of integers in increasing order
Ascending(S) == [r \in 1..Cardinality(S) |-> CHOOSE i \in S : Cardinality({j \in S : j < i}) = r - 1]

\* the distinct elements of seq in the order of their first occurrence (the
\* key order of a dict filled by walking seq)
Distinct(seq) ==
    LET first == Ascending({i \in 1..Len(seq) : \A j \in 1..(i - 1) : seq[j] # seq[i]})
    IN  [r \in 1..Len(first) |-> seq[first[r]]]

\* sorted(seq) for numbers
SortAsc(seq) ==
    LET n == Len(seq)
        Rank(i) == 1 + Cardinality({j \in 1..n : seq[j] < seq[i] \/ (seq[j] = seq[i] /\ j < i)})
    IN  [r \in 1..n |-> seq[CHOOSE i \in 1..n : Rank(i) = r]]

RECURSIVE Sum(_)
Sum(seq) == IF seq = <<>> THEN 0 ELSE Head(seq) + Sum(Tail(seq))

SHARP_BOOKS == {"pinnacle", "lowvig", "novig"}

\* "if prob <= 0 or prob >= 1: continue"
ValidProb(sb) == sb.implied_prob > 0 /\ sb.implied_prob < One

EventKey(sb) == sb.away_team \o "@" \o sb.home_team

OutcomeKey(sb) ==
    IF sb.outcome_point # NoPoint THEN sb.outcome_name \o "|" \o FloatStr(sb.outcome_point)
    ELSE sb.outcome_name

GroupKey(sb) == <<EventKey(sb), sb.market_type>>

\* the keys of market_groups, in insertion order
market_groups(entries) ==
    LET Keys(valid) == Distinct([i \in 1..Len(valid) |-> GroupKey(valid[i])])
    IN  Keys(SelectSeq(entries, ValidProb))

\* the quotes of one group
GroupQuotes(entries, g) ==
    LET InGroup(sb) == ValidProb(sb) /\ GroupKey(sb) = g
    IN  SelectSeq(entries, InGroup)

\* the outcome keys of one group, in insertion order
GroupOutcomes(entries, g) ==
    LET Keys(quotes) == Distinct([i \in 1..Len(quotes) |-> OutcomeKey(quotes[i])])
    IN  Keys(GroupQuotes(entries, g))

\* market_groups[g][okey]: the quotes of one outcome
OutcomeQuotes(entries, g, okey) ==
    LET IsOutcome(sb) == OutcomeKey(sb) = okey
    IN  SelectSeq(GroupQuotes(entries, g), IsOutcome)

IsSharp(sb) == sb.bookmaker \in SHARP_BOOKS

IsPinnacle(sb) == sb.bookmaker = "pinnacle"

\* the outcomes of a group that a sharp book quotes
SharpOutcomes(entries, g) ==
    LET HasSharp(okey) == SelectSeq(OutcomeQuotes(entries, g, okey), IsSharp) # <<>>
    IN  SelectSeq(GroupOutcomes(entries, g), HasSharp)

\* "pin[0] if pin else sharp_entries[0][1]"
SharpProb(entries, g, okey) ==
    LET First(sharp_entries, pin) ==
            IF pin # <<>> THEN pin[1].implied_prob ELSE sharp_entries[1].implied_prob
        Of(sharp_entries) == First(sharp_entries, SelectSeq(sharp_entries, IsPinnacle))
    IN  Of(SelectSeq(OutcomeQuotes(entries, g, okey), IsSharp))

\* "probs[len(probs) // 2]" of the sorted quotes of one outcome
MedianProb(entries, g, okey) ==
    LET Middle(probs) == probs[(Len(probs) \div 2) + 1]
        Of(quotes) == Middle(SortAsc([i \in 1..Len(quotes) |-> quotes[i].implied_prob]))
    IN  Of(OutcomeQuotes(entries, g, okey))

\* the raw probability kept as it is
DevigSkipped(raw, total) == raw

\* "raw_prob / sharp_total", "fair_probs[okey] /= consensus_total"
Devig(raw, total) == Div(raw, total)

\* "if sharp_probs and sharp_total > 0"
UsesSharp(entries, g) == SharpOutcomes(entries, g) # <<>>

\* fair_index[g]: the outcome keys with their fair probabilities
FairProbs(entries, g) ==
    LET Fair(okeys, raw, total) ==
            [i \in 1..Len(okeys) |-> [okey |-> okeys[i], fair_prob |-> Devig(raw[i], total)]]
        Summed(okeys, raw) == Fair(okeys, raw, Sum(raw))
    IN  IF UsesSharp(entries, g)
        THEN Summed(SharpOutcomes(entries, g),
                    [i \in 1..Len(SharpOutcomes(entries, g)) |->
                        SharpProb(entries, g, SharpOutcomes(entries, g)[i])])
        ELSE Summed(GroupOutcomes(entries, g),
                    [i \in 1..Len(GroupOutcomes(entries, g)) |->
                        MedianProb(entries, g, GroupOutcomes(entries, g)[i])])

build_fair_odds_index(entries) ==
    LET Index(groups) ==
            [i \in 1..Len(groups) |->
                [event_key |-> groups[i][1], mtype |-> groups[i][2],
                 fair_probs |-> FairProbs(entries, groups[i])]]
    IN  Index(market_groups(entries))

(***************************************************************************)
(* Specification SpecFair: the fair-odds index of a list of quotes         *)
(***************************************************************************)
MaxFair == 4

FairEntries == <<
    SbQuote("pinnacle", 1, "h2h", "Boston Celtics", NoPoint, "", P4(5238)),
    SbQuote("pinnacle", 1, "h2h", "Los Angeles Lakers", NoPoint, "", P4(5000)),
    SbQuote("draftkings", 1, "h2h", "Boston Celtics", NoPoint, "", P4(5455)),
    SbQuote("novig", 1, "h2h", "Los Angeles Lakers", NoPoint, "", P4(4900)),
    SbQuote("draftkings", 2, "h2h", "Denver Nuggets", NoPoint, "", P4(6000)),
    SbQuote("fanduel", 2, "h2h", "Denver Nuggets", NoPoint, "", P4(6200)),
    SbQuote("draftkings", 2, "h2h", "Phoenix Suns", NoPoint, "", P4(4348)),
    SbQuote("betmgm", 2, "h2h", "Phoenix Suns", NoPoint, "", 0),
    SbQuote("lowvig", 1, "totals", "Over", 215500, "", P4(5122)),
    SbQuote("draftkings", 1, "totals", "Under", 215500, "", P4(5238)),
    SbQuote("draftkings", 4, "h2h", "Draw", NoPoint, "", P4(2857)) >>

NoIndex == <<[pending |-> TRUE]>>

FairIdle == sportsbook_entries = <<>> /\ fair_index = NoIndex

InitFair ==
    /\ sportsbook_entries \in SubLists(FairEntries, MaxFair)
    /\ fair_index = NoIndex

\* fair_index = build_fair_odds_index(sportsbook_entries)
BuildFair ==
    /\ fair_index = NoIndex
    /\ fair_index' = build_fair_odds_index(sportsbook_entries)
    /\ UNCHANGED <<sportsbook_entries, notFair>>

Indexed == fair_index # NoIndex

\* the sum of the fair probabilities stored for the i-th group
GroupTotal(i) == Sum([k \in 1..Len(fair_index[i].fair_probs) |-> fair_index[i].fair_probs[k].fair_prob])

\* 1e-6
FairTolerance == One \div 10^6

\* C7: every outcome group of the fair-odds index sums to 1.0 within 1e-6,
\* on the sharp-book path and on the median-consensus path.
C7_GroupsSumToOne ==
    Indexed => \A i \in 1..Len(fair_index) : Abs(GroupTotal(i) - One) <= FairTolerance

\* an index with a sharp-book group of two outcomes and a consensus group of
\* two outcomes
C7_Witness ==
    /\ Indexed
    /\ \E i, j \in 1..Len(fair_index) :
          /\ UsesSharp(sportsbook_entries, <<fair_index[i].event_key, fair_index[i].mtype>>)
          /\ ~UsesSharp(sportsbook_entries, <<fair_index[j].event_key, fair_index[j].mtype>>)
          /\ Len(fair_index[i].fair_probs) = 2
          /\ Len(fair_index[j].fair_probs) = 2

\* the key of the i-th group of the index
IndexKey(i) == <<fair_index[i].event_key, fair_index[i].mtype>>

\* the distinct bookmakers with a valid quote in one group
GroupBooks(entries, g) ==
    LET Books(quotes) == {quotes[k].bookmaker : k \in 1..Len(quotes)}
    IN  Books(GroupQuotes(entries, g))

\* C19: the index holds no entry for an (event, market type) group that
\* fewer than two distinct bookmakers quoted.
C19_TwoBooks ==
    Indexed => \A i \in 1..Len(fair_index) :
                   Cardinality(GroupBooks(sportsbook_entries, IndexKey(i))) >= 2

\* the outcome keys stored for the i-th group
StoredOutcomes(i) == {fair_index[i].fair_probs[k].okey : k \in 1..Len(fair_index[i].fair_probs)}

\* C20: every outcome with at least one valid quote in a group has a fair
\* probability in that group's entry, also when a sharp book quoted only
\* some of the group's outcomes.
C20_EveryQuotedOutcome ==
    Indexed => \A i \in 1..Len(fair_index) :
                   \A k \in 1..Len(GroupOutcomes(sportsbook_entries, IndexKey(i))) :
                       GroupOutcomes(sportsbook_entries, IndexKey(i))[k] \in StoredOutcomes(i)

(***************************************************************************)
(* Labels of an opportunity                                                *)
(***************************************************************************)
IsLetter(c) == c \in LowerSet \/ c \in UpperSet

UpperChar(c) == IF c \in LowerSet THEN ToUpper[c] ELSE c

RECURSIVE UpperIn(_, _, _)
UpperIn(s, lo, hi) ==
    IF lo > hi THEN ""
    ELSE IF lo = hi THEN UpperChar(Char(s, lo))
    ELSE UpperIn(s, lo, (lo + hi) \div 2) \o UpperIn(s, (lo + hi) \div 2 + 1, hi)

\* str.upper()
Upper(s) == UpperIn(s, 1, Len(s))

RECURSIVE TitleIn(_, _, _)
TitleIn(s, lo, hi) ==
    IF lo > hi THEN ""
    ELSE IF lo = hi
         THEN (IF lo = 1 \/ ~IsLetter(Char(s, lo - 1)) THEN UpperChar(Char(s, lo))
               ELSE LowerChar(Char(s, lo)))
    ELSE TitleIn(s, lo, (lo + hi) \div 2) \o TitleIn(s, (lo + hi) \div 2 + 1, hi)

\* str.title(): a letter is upper-cased after a non-letter, lower-cased after a letter
Title(s) == TitleIn(s, 1, Len(s))

\* str.capitalize()
Capitalize(s) == IF s = "" THEN "" ELSE UpperChar(Char(s, 1)) \o Lower(Suffix(s, 2))

\* s[:n]
StrPrefix(s, n) == SubSeq(s, 1, Min(n, Len(s)))

\* the separator written between an event and its market label
Dash == " -- "

\* "now = datetime.now(timezone.utc)": the finders read the wall clock
\* "is_live": the event has started
IsLive(commence) == commence # NoTime /\ commence < clock

\* "time_display": LIVE, or the time to the start in days, hours or minutes
TimeDisplay(commence) ==
    LET Shown(days, seconds) ==
            IF days > 0 THEN IntStr(days) \o "d"
            ELSE IF seconds > 3600 THEN IntStr(seconds \div 3600) \o "h"
            ELSE IntStr(seconds \div 60) \o "m"
    IN  IF commence = NoTime THEN ""
        ELSE IF commence < clock THEN "LIVE"
        ELSE Shown((commence - clock) \div 1440, ((commence - clock) % 1440) * 60)

\* "sport_display" of find_all_arb_opportunities
SportDisplayArb(sb) ==
    LET Display(sport, low) ==
        IF Contains(low, "nba") \/ Contains(low, "basketball") THEN "NBA"
        ELSE IF Contains(low, "nfl") \/ Contains(low, "football") THEN "NFL"
        ELSE IF Contains(low, "mlb") \/ Contains(low, "baseball") THEN "MLB"
        ELSE IF Contains(low, "nhl") \/ Contains(low, "hockey") THEN "NHL"
        ELSE IF Contains(low, "soccer") \/ Contains(low, "mls") \/ Contains(low, "epl") THEN "Soccer"
        ELSE IF Contains(low, "mma") \/ Contains(low, "ufc") THEN "MMA"
        ELSE IF sport # "" THEN StrPrefix(sport, 10) ELSE "Sports"
        Named(sport) == Display(sport, Lower(sport))
    IN  Named(Upper(Replace(sb.sport, "_", " ")))

\* "sport_display" of find_ev_opportunities and find_cross_sportsbook_opportunities
SportDisplayEv(sb) ==
    LET Display(sport, low) ==
        IF Contains(low, "nba") THEN "NBA"
        ELSE IF Contains(low, "nfl") THEN "NFL"
        ELSE IF Contains(low, "mlb") THEN "MLB"
        ELSE IF Contains(low, "nhl") THEN "NHL"
        ELSE IF Contains(low, "soccer") \/ Contains(low, "mls") \/ Contains(low, "epl") THEN "Soccer"
        ELSE IF Contains(low, "mma") THEN "MMA"
        ELSE IF sport # "" THEN StrPrefix(sport, 10) ELSE "Sports"
        Named(sport) == Display(sport, Lower(sport))
    IN  Named(Upper(Replace(sb.sport, "_", " ")))

\* "sb_side": the sportsbook outcome with its point line
SbSide(outcome, point) ==
    IF point # NoPoint /\ Lower(outcome) \in {"over", "under"} THEN outcome \o " " \o FloatStr(point)
    ELSE IF point # NoPoint THEN outcome \o " " \o (IF point > 0 THEN "+" ELSE "") \o FloatStr(point)
    ELSE outcome

\* "pred_side": Yes/No translated into a label
PredSide(pred, pred_side_raw) ==
    LET Team(yes_team, other) ==
            IF pred_side_raw = "Yes" THEN yes_team
            ELSE IF other # <<>> THEN Title(other[1]) ELSE "Not " \o yes_team
        Label(yes_team) ==
            LET NotYesTeam(t) == ~Contains(t, Lower(yes_team))
            IN  Team(yes_team, SelectSeq(pred.teams, NotYesTeam))
    IN  IF pred.market_subtype = "totals" /\ pred.floor_strike # NoPoint
        THEN (IF pred_side_raw = "Yes" THEN "Over " ELSE "Under ") \o FloatStr(pred.floor_strike)
        ELSE IF pred.market_subtype = "h2h" /\ pred.no_sub_title # ""
        THEN Label(Strip(pred.no_sub_title))
        ELSE pred_side_raw

\* "event_display" of find_all_arb_opportunities
EventDisplayArb(pred, sb) ==
    IF pred.market_subtype = "totals" /\ pred.floor_strike # NoPoint
    THEN sb.event_name \o Dash \o "O/U " \o FloatStr(pred.floor_strike)
    ELSE IF pred.market_subtype = "h2h" THEN sb.event_name \o Dash \o "ML"
    ELSE IF pred.market_subtype = "spreads" THEN sb.event_name \o Dash \o "Spread"
    ELSE IF pred.market_subtype = "player_props" THEN sb.event_name \o Dash \o "Props"
    ELSE sb.event_name

\* "event_display" of find_ev_opportunities
EventDisplayEv(pred, sb) ==
    IF pred.market_subtype = "totals" /\ pred.floor_strike # NoPoint
    THEN sb.event_name \o Dash \o "O/U " \o FloatStr(pred.floor_strike)
    ELSE IF pred.market_subtype = "h2h" THEN sb.event_name \o Dash \o "ML"
    ELSE sb.event_name

\* "event" of find_cross_sportsbook_opportunities
EventDisplayXsb(event_key, mtype) ==
    Replace(event_key, "@", " @ ") \o Dash
        \o (IF mtype = "h2h" THEN "ML" ELSE Title(Replace(mtype, "_", " ")))

(***************************************************************************)
(* Shared steps of the prediction-vs-sportsbook finders                    *)
(***************************************************************************)
KALSHI_FEE_COEFF == 7 * (One \div 100)
POLYMARKET_FEE == 2 * (One \div 100)
SPORTSBOOK_FEE == 0

RECURSIVE Flatten(_)
\* the concatenation of a sequence of sequences
Flatten(seqs) == IF seqs = <<>> THEN <<>> ELSE Head(seqs) \o Flatten(Tail(seqs))

\* the guards on the prices of a prediction quote
PredUsable(pred) ==
    /\ Len(pred.prices) >= 2 /\ Len(pred.outcomes) >= 2
    /\ pred.prices[1] > 0 /\ pred.prices[1] < One
    /\ pred.prices[1] + pred.prices[2] >= 9 * (One \div 10)

\* "pred.get('_floor_strike') or _extract_point_line(question)"
PredLine(pred) ==
    IF pred.floor_strike # NoPoint /\ pred.floor_strike # 0 THEN pred.floor_strike
    ELSE extract_point_line(pred.question)

\* an index that files each sportsbook quote under its first team only
TeamCandidatesFirst(teams, entries) ==
    LET idx == Ascending({i \in 1..Len(entries) :
                             entries[i].teams # <<>> /\ entries[i].teams[1] \in Range(teams)})
    IN  [k \in 1..Len(idx) |-> entries[idx[k]]]

\* the sportsbook quotes the team index gives for a prediction quote, by
\* increasing position (the iteration order of a small set of small ints)
TeamCandidates(teams, entries) ==
    LET idx == Ascending({i \in 1..Len(entries) : Range(entries[i].teams) \cap Range(teams) # {}})
    IN  [k \in 1..Len(idx) |-> entries[idx[k]]]

\* the candidates left after narrowing by team, sport, market type and
\* point line; empty where the code skips the prediction quote
NarrowCandidates(pred, entries) ==
    LET SameSport(c) == pred.sport_category = "" \/ c.sport_category = ""
                            \/ c.sport_category = pred.sport_category
        OnLine(typed, pred_line) ==
            LET Near(c) == c.outcome_point # NoPoint
                               /\ Abs(c.outcome_point - pred_line) < PointScale \div 100
            IN  IF pred_line = NoPoint THEN <<>> ELSE SelectSeq(typed, Near)
        Typed(allowed) ==
            LET Allowed(c) == c.market_type \in allowed
            IN  SelectSeq(SelectSeq(TeamCandidates(pred.teams, entries), SameSport), Allowed)
    IN  IF pred.teams = <<>> \/ MARKET_TYPE_COMPAT(pred.market_subtype) = {} THEN <<>>
        ELSE IF pred.market_subtype = "h2h" /\ pred.sport_category = "soccer" THEN <<>>
        ELSE IF pred.market_subtype \in {"totals", "spreads", "player_props"}
             THEN OnLine(Typed(MARKET_TYPE_COMPAT(pred.market_subtype)), PredLine(pred))
        ELSE Typed(MARKET_TYPE_COMPAT(pred.market_subtype))

\* "diff_yes <= diff_no"
PriceProximity(pred, sb) ==
    Abs(pred.prices[1] - sb.implied_prob) <= Abs(pred.prices[2] - sb.implied_prob)

GenericTokens == {"fc", "city", "united", "the", "de", "la"}

\* the side decided by the prices alone
SbSameAsYesByPrice(pred, sb) == PriceProximity(pred, sb)

\* "sb_same_as_yes": the sportsbook outcome is the Yes side of the quote
SbSameAsYes(pred, sb) ==
    LET ByWords(has_over, has_under) ==
            IF has_over \/ has_under
            THEN (has_over /\ ~has_under) = (Lower(sb.outcome_name) = "over")
            ELSE PriceProximity(pred, sb)
        ByText(pred_text) == ByWords(HasWord(pred_text, "over"), HasWord(pred_text, "under"))
        ByLabel(yes_team_label, sb_outcome_name, shared) ==
            IF yes_team_label # "" /\ sb_outcome_name # ""
            THEN shared \ GenericTokens # {}
            ELSE PriceProximity(pred, sb)
    IN  IF pred.market_subtype \in {"totals", "player_props"}
              /\ sb.market_type \in ({"totals"} \cup PlayerMarkets)
        THEN ByText(Lower(pred.question \o " " \o pred.description \o " " \o pred.no_sub_title))
        ELSE IF pred.market_subtype = "h2h"
        THEN ByLabel(Strip(pred.no_sub_title), Strip(sb.outcome_name),
                     TokenSet(Strip(pred.no_sub_title)) \cap TokenSet(Strip(sb.outcome_name)))
        ELSE PriceProximity(pred, sb)

\* "(KALSHI_FEE_COEFF * pred_price) if is_kalshi else POLYMARKET_FEE"
PredFee(pred, pred_price) ==
    IF pred.source # "polymarket" THEN Mul(KALSHI_FEE_COEFF, pred_price) ELSE POLYMARKET_FEE

\* the prediction leg bought against a sportsbook quote: No when the
\* sportsbook outcome is the Yes side, else Yes
PredLeg(pred, sb) ==
    LET Priced(pred_side_raw, pred_price) ==
            [pred_side_raw |-> pred_side_raw,
             pred_price |-> pred_price,
             pred_fee |-> PredFee(pred, pred_price)]
        Leg(sb_same_as_yes) ==
            IF sb_same_as_yes THEN Priced("No", pred.prices[2]) ELSE Priced("Yes", pred.prices[1])
    IN  Leg(SbSameAsYes(pred, sb))

\* a kept value of the dict "seen": the first quote with the best score of
\* each key, the keys in the order of their first insertion
DedupBest(opps, keys, scores) ==
    LET firsts == Distinct(keys)
        Best(k) == CHOOSE i \in 1..Len(opps) :
                       /\ keys[i] = k
                       /\ \A j \in 1..Len(opps) :
                             keys[j] = k => (scores[j] < scores[i] \/ (scores[j] = scores[i] /\ j >= i))
    IN  [r \in 1..Len(firsts) |-> opps[Best(firsts[r])]]

(***************************************************************************)
(* find_all_arb_opportunities                                              *)
(***************************************************************************)
\* the gross edge in units of 10^-6 percent
ArbTooLargeLax(gross_pct) == gross_pct > 50 * 10^6

\* "if arb['gross_arb_pct'] > 15: continue", "if gross_pct > 15: continue"
ArbTooLarge(gross_pct) == gross_pct > 15 * 10^6

\* the arbitrage of a prediction leg against a matched sportsbook quote
MatchArb(leg, sb) ==
    compute_arb_binary(leg.pred_price, sb.implied_prob, leg.pred_fee, SPORTSBOOK_FEE)

\* the filters between a computed arbitrage and an opportunity
ArbKept(computed, min_net_pct) ==
    /\ computed # None
    /\ computed.gross_arb_pct > 0
    /\ ~ArbTooLarge(computed.gross_arb_pct * 1000)
    /\ computed.net_arb_pct >= min_net_pct

IsOpp(o) == o # None

\* "opp" of find_all_arb_opportunities for one match (the id is the text
\* that is hashed); None where the code skips the match
ArbOpp(pred, match, min_net_pct) ==
    LET sb == match.sportsbook_entry
        Opp(leg, pred_side, computed) ==
        IF sb.implied_prob <= 0 \/ sb.implied_prob >= One THEN None
        ELSE IF ~ArbKept(computed, min_net_pct) THEN None
        ELSE [id |-> pred.id \o "-" \o sb.bookmaker \o "-" \o sb.outcome_name \o "-" \o pred_side,
              type |-> "arb",
              commence_time |-> sb.commence_time,
              time_display |-> TimeDisplay(sb.commence_time),
              is_live |-> IsLive(sb.commence_time),
              sport |-> SportDisplayArb(sb),
              event |-> EventDisplayArb(pred, sb),
              platform_a |-> [name |-> Capitalize(pred.source), side |-> pred_side,
                              implied_prob |-> RoundTo(leg.pred_price, Half)],
              platform_b |-> [name |-> sb.bookmaker_title,
                              side |-> SbSide(sb.outcome_name, sb.outcome_point),
                              implied_prob |-> RoundTo(sb.implied_prob, Half)],
              market_type |-> sb.market_type,
              gross_arb_pct |-> computed.gross_arb_pct,
              net_arb_pct |-> computed.net_arb_pct,
              ev_pct |-> 0,
              match_confidence |-> RoundTo(match.confidence, One \div 100)]
        Bought(leg) == Opp(leg, PredSide(pred, leg.pred_side_raw), MatchArb(leg, sb))
    IN  Bought(PredLeg(pred, sb))

\* "matches" of a prediction quote: the matches among its narrowed
\* candidates (no candidate gives no match), none where the code skips the
\* quote
PredMatches(pred, entries) ==
    IF ~PredUsable(pred) THEN <<>>
    ELSE try_match_prediction_to_sportsbook(pred, NarrowCandidates(pred, entries))

\* the opportunities of one prediction quote with its matches "found",
\* before deduplication
PredArbs(pred, found, min_net_pct) ==
    SelectSeq([i \in 1..Len(found) |-> ArbOpp(pred, found[i], min_net_pct)], IsOpp)

\* "key" of the deduplication of find_all_arb_opportunities
ArbKey(opp) ==
    opp.event \o "-" \o opp.platform_a.name \o "-" \o opp.platform_b.name \o "-" \o opp.market_type

find_all_arb_opportunities(prediction_markets, entries, min_net_pct) ==
    LET Sorted(deduped) == SortDesc(deduped, [i \in 1..Len(deduped) |-> deduped[i].net_arb_pct])
        Deduped(opportunities) ==
            Sorted(DedupBest(opportunities,
                             [i \in 1..Len(opportunities) |-> ArbKey(opportunities[i])],
                             [i \in 1..Len(opportunities) |-> opportunities[i].net_arb_pct]))
    IN  Deduped(Flatten([p \in 1..Len(prediction_markets) |->
                            PredArbs(prediction_markets[p],
                                     PredMatches(prediction_markets[p], entries), min_net_pct)]))

(***************************************************************************)
(* find_cross_prediction_arbs                                              *)
(***************************************************************************)
\* "if km_prices[0] + km_prices[1] < 0.90: continue"
Liquid(m) == Len(m.prices) >= 2 /\ m.prices[1] + m.prices[2] >= 9 * (One \div 10)

\* the Kalshi markets looked at for one Polymarket market, none when the
\* Polymarket market is skipped
KalshiCandidates(pm, kalshis) ==
    IF ~Liquid(pm) THEN <<>>
    ELSE IF pm.teams # <<>> THEN TeamCandidates(pm.teams, kalshis) ELSE kalshis

CrossTeamOverlap(pm, km) == Cardinality(Range(pm.teams) \cap Range(km.teams))

\* "score = team_overlap * 0.3 + text_sim * 0.4"
CrossScore(pm, km) ==
    CrossTeamOverlap(pm, km) * (3 * (One \div 10))
        + Mul(similarity_score_from_tokens(pm.tokens, km.tokens), 4 * (One \div 10))

\* the pair survives the subtype, point-line, both-teams and score tests
CrossPaired(pm, km) ==
    LET IsGame(pm_question, km_question) ==
            Contains(pm_question, "winner") \/ Contains(pm_question, "win")
                \/ Contains(km_question, "winner") \/ Contains(km_question, "win")
        LinesApart(pm_line, km_line) ==
            pm_line # NoPoint /\ km_line # NoPoint /\ Abs(pm_line - km_line) >= PointScale \div 100
    IN  /\ Liquid(km)
        /\ ~(pm.market_subtype # "unknown" /\ km.market_subtype # "unknown"
                /\ pm.market_subtype # km.market_subtype)
        /\ ~(pm.market_subtype = "totals" /\ km.market_subtype = "totals"
                /\ LinesApart(extract_point_line(pm.question), extract_point_line(km.question)))
        /\ ~(IsGame(Lower(pm.question), Lower(km.question))
                /\ Len(pm.teams) >= 2 /\ Len(km.teams) >= 2 /\ CrossTeamOverlap(pm, km) < 2)
        /\ CrossScore(pm, km) >= 35 * (One \div 100)

\* "aligned": Polymarket Yes and Kalshi Yes are the same outcome
CrossAligned(pm, km) ==
    LET ByWords(pm_has_over, pm_has_under, km_has_over, km_has_under) ==
            IF pm.market_subtype \in {"totals", "player_props"}
                  /\ (pm_has_over \/ pm_has_under) /\ (km_has_over \/ km_has_under)
            THEN (pm_has_over /\ ~pm_has_under) = (km_has_over /\ ~km_has_under)
            ELSE Abs(pm.prices[1] - km.prices[1]) <= Abs(pm.prices[1] - km.prices[2])
        ByText(pm_question, km_question) ==
            ByWords(HasWord(pm_question, "over"), HasWord(pm_question, "under"),
                    HasWord(km_question, "over"), HasWord(km_question, "under"))
    IN  ByText(Lower(pm.question), Lower(km.question))

\* "opp" of find_cross_prediction_arbs for one pair; None where the code
\* skips the pair
CrossOpp(pm, km, min_net_pct) ==
    LET pa_side == pm.outcomes[1]
        Opp(aligned, pb_price, computed) ==
        IF ~ArbKept(computed, min_net_pct) THEN None
        ELSE [id |-> "cross-" \o pm.id \o "-" \o km.id \o "-" \o pa_side,
              type |-> "arb",
              commence_time |-> NoTime,
              time_display |-> "",
              is_live |-> FALSE,
              sport |-> "Sports",
              event |-> StrPrefix(pm.question, 60),
              platform_a |-> [name |-> "Polymarket", side |-> pa_side,
                              implied_prob |-> RoundTo(pm.prices[1], Half)],
              platform_b |-> [name |-> "Kalshi",
                              side |-> IF aligned THEN km.outcomes[2] ELSE km.outcomes[1],
                              implied_prob |-> RoundTo(pb_price, Half)],
              market_type |-> "binary",
              gross_arb_pct |-> computed.gross_arb_pct,
              net_arb_pct |-> computed.net_arb_pct,
              ev_pct |-> 0,
              match_confidence |-> RoundTo(CrossScore(pm, km), One \div 100)]
        Priced(aligned, pb_price) ==
            Opp(aligned, pb_price,
                compute_arb_binary(pm.prices[1], pb_price, POLYMARKET_FEE,
                                   Mul(KALSHI_FEE_COEFF, pb_price)))
        Sided(aligned) == Priced(aligned, IF aligned THEN km.prices[2] ELSE km.prices[1])
    IN  IF ~CrossPaired(pm, km) THEN None ELSE Sided(CrossAligned(pm, km))

\* the opportunities of one Polymarket market against its candidates
PolyCrossArbs(pm, cands, min_net_pct) ==
    SelectSeq([i \in 1..Len(cands) |-> CrossOpp(pm, cands[i], min_net_pct)], IsOpp)

find_cross_prediction_arbs(polys, kalshis, min_net_pct) ==
    LET Sorted(opportunities) ==
            SortDesc(opportunities, [i \in 1..Len(opportunities) |-> opportunities[i].net_arb_pct])
    IN  Sorted(Flatten([p \in 1..Len(polys) |->
                           PolyCrossArbs(polys[p], KalshiCandidates(polys[p], kalshis),
                                         min_net_pct)]))

(***************************************************************************)
(* compute_ev, find_ev_opportunities                                       *)
(***************************************************************************)
\* a payout whose fee is taken from the whole payout, stake included
EffectivePayoutOnStake(payout, fee_rate) == payout - Mul(payout, fee_rate)

\* "effective_payout = payout - (payout - 1.0) * fee_rate"
EffectivePayout(payout, fee_rate) == payout - Mul(payout - One, fee_rate)

\* EV in units of 10^-6 percent; the price is at least 0.05
compute_ev(price, fair_prob, fee_rate) ==
    IF price <= 0 \/ price >= One \/ fair_prob <= 0 THEN None
    ELSE LET Value(effective_payout) ==
                 [is_none |-> FALSE, ev |-> Mul(effective_payout, fair_prob) - One]
         IN  Value(EffectivePayout(Div(One, price), fee_rate))

(***************************************************************************)
(* Specification SpecEv: compute_ev on a grid of arguments                 *)
(***************************************************************************)
\* prices 0, 0.1, ... 1.0 and beyond the unit interval on both sides
EvPrices == {P4(1000 * k) : k \in 0..(MaxProbStep + 1)} \cup {-P4(1000), P4(500), P4(4545), P4(12000)}

\* fair probabilities 0, 0.1, ... and an off-grid one
EvFairProbs == {P4(1000 * k) : k \in 0..MaxProbStep} \cup {-P4(1000), P4(5263)}

NotValued == [is_none |-> FALSE, pending |-> TRUE]

EvIdle == ev_price = 0 /\ ev_fair = 0 /\ ev_fee = 0 /\ ev_result = NotValued

InitEv ==
    /\ ev_price \in EvPrices
    /\ ev_fair \in EvFairProbs
    /\ ev_fee \in ArbFees
    /\ ev_result = NotValued

ComputeEv ==
    /\ ev_result = NotValued
    /\ ev_result' = compute_ev(ev_price, ev_fair, ev_fee)
    /\ UNCHANGED <<ev_price, ev_fair, ev_fee, arbVars, normVars, matchVars, fairVars, scanVars, repeatVars, pairVars, crossVars, inferVars, teamsVars, configVars>>

\* ((1 - (1 - p) * f) * q - p) / p: the EV of a stake of 1 when the fee is
\* taken from the winnings 1/p - 1 only, in units of 10^-6 percent
EvOnWinnings(p, q, f) == Div(Mul(q, One - Mul(One - p, f)) - p, p)

\* C18: compute_ev returns no value when price <= 0, price >= 1 or
\* fairProb <= 0, and otherwise ((payout - (payout - 1) * feeRate) * fairProb
\* - 1) * 100 with payout = 1 / price (to 10^-4 percent).
C18_EvFormula ==
    (ev_result # NotValued) =>
        IF ev_price <= 0 \/ ev_price >= One \/ ev_fair <= 0 THEN ev_result = None
        ELSE /\ ev_result # None
             /\ Abs(ev_result.ev - EvOnWinnings(ev_price, ev_fair, ev_fee)) <= 100

\* compute_ev has returned a value for a bet with a fee
C18_Witness ==
    /\ ev_result # NotValued
    /\ ev_result # None
    /\ ev_fee > 0


\* "min_ev_pct=2.0"
MIN_EV_PCT == 2 * 10^6

EvTooLargeLax(ev) == ev > 300 * 10^6

\* "if ev > 30: continue"
EvTooLarge(ev) == ev > 30 * 10^6

\* "ev is None or ev < min_ev_pct" and "ev > 30" both fail
\* a filter without the minimum
EvKeptNoMinimum(computed, min_ev_pct) == computed # None /\ ~EvTooLarge(computed.ev)

EvKept(computed, min_ev_pct) ==
    /\ computed # None
    /\ computed.ev >= min_ev_pct
    /\ ~EvTooLarge(computed.ev)

\* fair_index.get((event_key, mtype)): the outcomes of the group, none when absent
FairLookup(index, event_key, mtype) ==
    LET hits == {i \in 1..Len(index) : index[i].event_key = event_key /\ index[i].mtype = mtype}
    IN  IF hits = {} THEN <<>> ELSE index[CHOOSE i \in hits : TRUE].fair_probs

\* fair_probs.get(okey, 0)
FairOf(fair_probs, okey) ==
    LET hits == {i \in 1..Len(fair_probs) : fair_probs[i].okey = okey}
    IN  IF hits = {} THEN 0 ELSE fair_probs[CHOOSE i \in hits : TRUE].fair_prob

\* the fair probability set against the bought prediction side: of the
\* first other outcome of the group when No is bought, of the sportsbook
\* outcome when Yes is bought; 0 where the code skips the quote
EvFairProb(leg, sb, fair_probs) ==
    LET FirstOther(other_keys) == IF other_keys = <<>> THEN 0 ELSE other_keys[1].fair_prob
        Against(outcome_key) ==
            LET Other(f) == f.okey # outcome_key
            IN  IF leg.pred_side_raw = "No" THEN FirstOther(SelectSeq(fair_probs, Other))
                ELSE FairOf(fair_probs, outcome_key)
    IN  Against(OutcomeKey(sb))

\* "opp" of find_ev_opportunities for the best match; None where the code
\* skips the quote
EvOpp(pred, match, index, min_ev_pct) ==
    LET sb == match.sportsbook_entry
        Opp(fair_probs, leg, pred_side, fair_prob, computed) ==
        IF fair_probs = <<>> THEN None
        ELSE IF sb.implied_prob <= 0 \/ sb.implied_prob >= One THEN None
        ELSE IF fair_prob <= 0 THEN None
        ELSE IF ~EvKept(computed, min_ev_pct) THEN None
        ELSE [id |-> "ev-" \o pred.id \o "-" \o sb.bookmaker \o "-" \o pred_side,
              type |-> "ev",
              commence_time |-> sb.commence_time,
              time_display |-> TimeDisplay(sb.commence_time),
              is_live |-> IsLive(sb.commence_time),
              sport |-> SportDisplayEv(sb),
              event |-> EventDisplayEv(pred, sb),
              platform_a |-> [name |-> Capitalize(pred.source), side |-> pred_side,
                              implied_prob |-> RoundTo(leg.pred_price, Half)],
              platform_b |-> [name |-> sb.bookmaker_title,
                              side |-> SbSide(sb.outcome_name, sb.outcome_point) \o " (ref)",
                              implied_prob |-> RoundTo(sb.implied_prob, Half)],
              market_type |-> sb.market_type,
              gross_arb_pct |-> 0,
              net_arb_pct |-> Round3(computed.ev),
              ev_pct |-> Round3(computed.ev),
              consensus_prob |-> RoundTo(fair_prob, Half),
              match_confidence |-> RoundTo(match.confidence, One \div 100)]
        Valued(fair_probs, leg, fair_prob) ==
            Opp(fair_probs, leg, PredSide(pred, leg.pred_side_raw), fair_prob,
                compute_ev(leg.pred_price, fair_prob, leg.pred_fee))
        Bought(fair_probs, leg) == Valued(fair_probs, leg, EvFairProb(leg, sb, fair_probs))
    IN  Bought(FairLookup(index, EventKey(sb), sb.market_type), PredLeg(pred, sb))

\* the opportunity of one prediction quote with its matches "found", from
\* its best match only
PredEvs(pred, found, index, min_ev_pct) ==
    IF found = <<>> THEN <<>>
    ELSE SelectSeq(<<EvOpp(pred, found[1], index, min_ev_pct)>>, IsOpp)

\* "key" of the deduplication of find_ev_opportunities
EvKey(opp) == opp.event \o "-" \o opp.platform_a.name \o "-" \o opp.market_type

find_ev_opportunities(prediction_markets, entries, index, min_ev_pct) ==
    LET Sorted(deduped) == SortDesc(deduped, [i \in 1..Len(deduped) |-> deduped[i].ev_pct])
        Deduped(opportunities) ==
            Sorted(DedupBest(opportunities,
                             [i \in 1..Len(opportunities) |-> EvKey(opportunities[i])],
                             [i \in 1..Len(opportunities) |-> opportunities[i].ev_pct]))
    IN  Deduped(Flatten([p \in 1..Len(prediction_markets) |->
                            PredEvs(prediction_markets[p],
                                    PredMatches(prediction_markets[p], entries),
                                    index, min_ev_pct)]))

(***************************************************************************)
(* find_cross_sportsbook_opportunities                                     *)
(***************************************************************************)
\* "group_key = (event_key, mtype, point)"
XsbGroupKey(sb) == <<EventKey(sb), sb.market_type, sb.outcome_point>>

\* the keys of event_groups, in insertion order
event_groups(entries) == Distinct([i \in 1..Len(entries) |-> XsbGroupKey(entries[i])])

\* the outcome names of one group, in insertion order
XsbOutcomes(entries, g) ==
    LET InGroup(sb) == XsbGroupKey(sb) = g
        Names(quotes) == Distinct([i \in 1..Len(quotes) |-> quotes[i].outcome_name])
    IN  Names(SelectSeq(entries, InGroup))

\* "min(side_entries, key=implied_prob)": the first quote with the lowest
\* implied probability
BestQuote(entries, g, outcome) ==
    LET OnSide(sb) == XsbGroupKey(sb) = g /\ sb.outcome_name = outcome
        Lowest(side) ==
            side[CHOOSE i \in 1..Len(side) :
                    \A j \in 1..Len(side) :
                        side[j].implied_prob > side[i].implied_prob
                            \/ (side[j].implied_prob = side[i].implied_prob /\ j >= i)]
    IN  Lowest(SelectSeq(entries, OnSide))

\* both quotes are priced and come from different bookmakers
\* a pair test that looks at the bookmakers only
XsbPairUsableLax(best_a, best_b) == best_a.bookmaker # best_b.bookmaker

XsbPairUsable(best_a, best_b) ==
    /\ best_a.bookmaker # best_b.bookmaker
    /\ best_a.implied_prob > 0 /\ best_a.implied_prob < One
    /\ best_b.implied_prob > 0 /\ best_b.implied_prob < One

\* the sides of a sportsbook arbitrage with their point line
XsbSideA(outcome, point) ==
    IF point = NoPoint THEN outcome
    ELSE IF Lower(outcome) \in {"over", "under"} THEN outcome \o " " \o FloatStr(point)
    ELSE outcome \o " " \o (IF point > 0 THEN "+" ELSE "") \o FloatStr(point)

XsbSideB(outcome_a, outcome_b, point) ==
    IF point = NoPoint THEN outcome_b
    ELSE IF Lower(outcome_a) \in {"over", "under"} THEN outcome_b \o " " \o FloatStr(point)
    ELSE outcome_b \o " " \o (IF point < 0 THEN "+" ELSE "")
             \o (IF point # 0 THEN FloatStr(-point) ELSE "")

\* "opp" of the arbitrage branch; the gross edge is in 10^-6 percent
XsbArbOpp(g, best_a, best_b, gross_pct) ==
    [id |-> "xsb-" \o g[1] \o "-" \o g[2] \o "-" \o best_a.outcome_name \o "-" \o best_b.outcome_name,
     type |-> "arb",
     commence_time |-> best_a.commence_time,
     time_display |-> TimeDisplay(best_a.commence_time),
     is_live |-> IsLive(best_a.commence_time),
     sport |-> SportDisplayEv(best_a),
     event |-> EventDisplayXsb(g[1], g[2]),
     platform_a |-> [name |-> best_a.bookmaker_title, side |-> XsbSideA(best_a.outcome_name, g[3]),
                     implied_prob |-> RoundTo(best_a.implied_prob, Half)],
     platform_b |-> [name |-> best_b.bookmaker_title,
                     side |-> XsbSideB(best_a.outcome_name, best_b.outcome_name, g[3]),
                     implied_prob |-> RoundTo(best_b.implied_prob, Half)],
     market_type |-> g[2],
     gross_arb_pct |-> Round3(gross_pct),
     net_arb_pct |-> Round3(gross_pct),
     ev_pct |-> 0,
     consensus_prob |-> 0,
     match_confidence |-> RoundTo(One, One \div 100)]

\* str(round(p * 100, 1))
PctStr(p) == LET Tenths(tenths) == IntStr(tenths \div 10) \o "." \o IntStr(tenths % 10)
             IN  Tenths(RoundTo(p, 10^5))

\* the fair probability of one side of a pair; 0 when the index has none
XsbFairProb(g, best, index) ==
    FairOf(FairLookup(index, g[1], g[2]),
           IF g[3] # NoPoint THEN best.outcome_name \o "|" \o FloatStr(g[3]) ELSE best.outcome_name)

\* "opp" of the +EV branch for one side of a pair; None where the code
\* skips the side
XsbEvOpp(g, best, index, min_ev_pct) ==
    LET Opp(fair_p, computed) ==
        IF fair_p <= 0 THEN None
        ELSE IF ~EvKept(computed, min_ev_pct) THEN None
        ELSE [id |-> "xev-" \o g[1] \o "-" \o g[2] \o "-" \o best.outcome_name \o "-" \o best.bookmaker,
              type |-> "ev",
              commence_time |-> best.commence_time,
              time_display |-> TimeDisplay(best.commence_time),
              is_live |-> IsLive(best.commence_time),
              sport |-> SportDisplayEv(best),
              event |-> EventDisplayXsb(g[1], g[2]),
              platform_a |-> [name |-> best.bookmaker_title, side |-> SbSide(best.outcome_name, g[3]),
                              implied_prob |-> RoundTo(best.implied_prob, Half)],
              platform_b |-> [name |-> "Consensus", side |-> "Fair: " \o PctStr(fair_p) \o "%",
                              implied_prob |-> RoundTo(fair_p, Half)],
              market_type |-> g[2],
              gross_arb_pct |-> 0,
              net_arb_pct |-> Round3(computed.ev),
              ev_pct |-> Round3(computed.ev),
              consensus_prob |-> RoundTo(fair_p, Half),
              match_confidence |-> RoundTo(One, One \div 100)]
        Valued(fair_p) == Opp(fair_p, compute_ev(best.implied_prob, fair_p, 0))
    IN  Valued(XsbFairProb(g, best, index))

\* the opportunities of one pair of outcomes of a group, from the best
\* quote of each
XsbPairOpps(g, best_a, best_b, index, min_ev_pct) ==
    LET cost == best_a.implied_prob + best_b.implied_prob
    IN  IF ~XsbPairUsable(best_a, best_b) THEN <<>>
        ELSE IF cost < One
        THEN (IF ArbTooLarge(One - cost) THEN <<>> ELSE <<XsbArbOpp(g, best_a, best_b, One - cost)>>)
        ELSE IF FairLookup(index, g[1], g[2]) = <<>> THEN <<>>
        ELSE SelectSeq(<<XsbEvOpp(g, best_a, index, min_ev_pct),
                         XsbEvOpp(g, best_b, index, min_ev_pct)>>, IsOpp)

\* the opportunities of one group with its outcome names: the pairs i < j
\* of its outcomes
XsbGroupOpps(entries, index, g, outcomes, min_ev_pct) ==
    LET n == Len(outcomes)
        BestOf(k) == BestQuote(entries, g, outcomes[k])
    IN  IF n < 2 THEN <<>>
        ELSE Flatten([k \in 1..(n * n) |->
                         IF ((k - 1) \div n) < ((k - 1) % n)
                         THEN XsbPairOpps(g, BestOf(((k - 1) \div n) + 1), BestOf(((k - 1) % n) + 1),
                                          index, min_ev_pct)
                         ELSE <<>>])

\* "key" of the deduplication of find_cross_sportsbook_opportunities
XsbKey(opp) == opp.event \o "-" \o opp.platform_a.name \o "-" \o opp.platform_a.side

\* "opportunities" before deduplication: those of every group, in the order
\* of the groups
XsbOpps(entries, index, groups, min_ev_pct) ==
    Flatten([k \in 1..Len(groups) |->
                XsbGroupOpps(entries, index, groups[k], XsbOutcomes(entries, groups[k]), min_ev_pct)])

find_cross_sportsbook_opportunities(entries, index, min_ev_pct) ==
    LET Sorted(deduped) ==
            SortDesc(deduped, [i \in 1..Len(deduped) |-> deduped[i].ev_pct + deduped[i].net_arb_pct])
        Deduped(opportunities) ==
            Sorted(DedupBest(opportunities,
                             [i \in 1..Len(opportunities) |-> XsbKey(opportunities[i])],
                             [i \in 1..Len(opportunities) |->
                                 opportunities[i].ev_pct + opportunities[i].gross_arb_pct]))
    IN  Deduped(XsbOpps(entries, index, event_groups(entries), min_ev_pct))

(***************************************************************************)
(* run_scan                                                                *)
(***************************************************************************)
\* "float(params.get('min_pct', '-999'))", in milli-percent
DEFAULT_MIN_PCT == -999 * 10^3

\* a sort key without the type rank: by falling edge only
ScanBeforeByEdge(a, b) == a.net_arb_pct + a.ev_pct > b.net_arb_pct + b.ev_pct

\* the key of the final sort: arbitrages first, then by falling edge
ScanBefore(a, b) ==
    LET TypeRank(o) == IF o.type = "arb" THEN 0 ELSE 1
        Edge(o) == o.net_arb_pct + o.ev_pct
    IN  TypeRank(a) < TypeRank(b) \/ (TypeRank(a) = TypeRank(b) /\ Edge(a) > Edge(b))

\* list.sort(key=(type rank, -edge)): stable
SortScan(opps) ==
    LET n == Len(opps)
        Rank(i) == 1 + Cardinality({j \in 1..n : ScanBefore(opps[j], opps[i])
                                                    \/ (~ScanBefore(opps[i], opps[j]) /\ j < i)})
    IN  [r \in 1..n |-> opps[CHOOSE i \in 1..n : Rank(i) = r]]

\* the opportunities of all four paths, in the order run_scan collects
\* them; "index" is the fair-odds index of the sportsbook quotes
AllOpportunities(polys, kalshis, entries, index, min_net_pct) ==
    (IF entries # <<>> /\ polys # <<>>
     THEN find_all_arb_opportunities(polys, entries, min_net_pct) ELSE <<>>)
    \o (IF entries # <<>> /\ kalshis # <<>>
        THEN find_all_arb_opportunities(kalshis, entries, min_net_pct) ELSE <<>>)
    \o (IF polys # <<>> /\ kalshis # <<>>
        THEN find_cross_prediction_arbs(polys, kalshis, min_net_pct) ELSE <<>>)
    \o (IF entries # <<>> /\ polys # <<>>
        THEN find_ev_opportunities(polys, entries, index, MIN_EV_PCT) ELSE <<>>)
    \o (IF entries # <<>> /\ kalshis # <<>>
        THEN find_ev_opportunities(kalshis, entries, index, MIN_EV_PCT) ELSE <<>>)
    \o (IF entries # <<>>
        THEN find_cross_sportsbook_opportunities(entries, index, MIN_EV_PCT) ELSE <<>>)

\* the response of run_scan for the lists, statuses and messages it has
\* after waiting for the fetches, and the request parameters
run_scan(polys, kalshis, entries, sources_status, errors, min_net_pct, sports_filter) ==
    LET sports_set == {Upper(sports_filter[i]) : i \in 1..Len(sports_filter)}
        InSports(o) == Upper(o.sport) \in sports_set
        IsArb(o) == o.type = "arb"
        IsEv(o) == o.type = "ev"
        Response(all_opportunities) ==
            [opportunities |-> all_opportunities,
             meta |-> [total_opportunities |-> Len(all_opportunities),
                       arb_count |-> Len(SelectSeq(all_opportunities, IsArb)),
                       ev_count |-> Len(SelectSeq(all_opportunities, IsEv)),
                       sources |-> sources_status,
                       errors |-> errors,
                       poly_count |-> Len(polys),
                       kalshi_count |-> Len(kalshis),
                       sportsbook_count |-> Len(entries)]]
        Deduped(filtered) ==
            Response(SortScan(DedupBest(filtered,
                                        [i \in 1..Len(filtered) |-> filtered[i].id],
                                        [i \in 1..Len(filtered) |->
                                            filtered[i].ev_pct + filtered[i].net_arb_pct])))
        Filtered(collected) ==
            Deduped(IF sports_filter # <<>> /\ sports_filter[1] # ""
                    THEN SelectSeq(collected, InSports) ELSE collected)
    IN  Filtered(AllOpportunities(polys, kalshis, entries,
                                  IF entries # <<>> THEN build_fair_odds_index(entries) ELSE <<>>,
                                  min_net_pct))

(***************************************************************************)
(* run_scan: waiting for the three fetches                                 *)
(***************************************************************************)
\* what future.result(timeout=15) does: it returns the fetcher's list, or
\* raises what the fetcher raised or TimeoutError
Returned(quotes) == [kind |-> "returned", quotes |-> quotes]

Raised(error, message) == [kind |-> "raised", error |-> error, message |-> message]

\* future_sb is None without an API key
NotSubmitted == [kind |-> "not_submitted"]

QuotaMessage == "QUOTA_EXCEEDED: Odds API usage limit reached. Check your plan at https://the-odds-api.com"

InvalidKeyMessage == "INVALID_KEY: Odds API key is invalid or expired. Update it in Settings."

\* fetch_sportsbook_odds: the errors of the per-sport requests are raised
\* only when no request returned events
fetch_sportsbook_odds(api_errors, entries) ==
    IF entries = <<>> /\ api_errors # {}
    THEN IF "QUOTA_EXCEEDED" \in api_errors THEN Raised("RuntimeError", QuotaMessage)
         ELSE IF "INVALID_KEY" \in api_errors THEN Raised("RuntimeError", InvalidKeyMessage)
         ELSE Returned(<<>>)
    ELSE Returned(entries)

\* the list run_scan holds after waiting: it stays [] when the wait raised
\* or nothing was submitted
FutureResult(future) == IF future.kind = "returned" THEN future.quotes ELSE <<>>

\* a status that tells a failed wait from nothing but an empty list
PredStatusLax(future) ==
    IF future.kind = "returned" /\ future.quotes # <<>> THEN "ok" ELSE "empty"

\* sources_status of Polymarket and of Kalshi
PredStatus(future) ==
    IF future.kind = "returned" THEN (IF future.quotes # <<>> THEN "ok" ELSE "empty")
    ELSE "error"

\* sources_status of the sportsbook source
SbStatus(future) ==
    IF future.kind = "not_submitted" THEN "no_key"
    ELSE IF future.kind = "returned" THEN (IF future.quotes # <<>> THEN "ok" ELSE "empty")
    ELSE IF future.error = "RuntimeError"
    THEN IF Contains(future.message, "QUOTA_EXCEEDED") THEN "quota_exceeded"
         ELSE IF Contains(future.message, "INVALID_KEY") THEN "invalid_key"
         ELSE "error"
    ELSE "error"

SourcesStatus(fs) ==
    [polymarket |-> PredStatus(fs.polymarket),
     kalshi |-> PredStatus(fs.kalshi),
     sportsbook |-> SbStatus(fs.sportsbook)]

\* the messages appended to errors, in the order of the three waits
ScanErrors(fs) ==
    (IF fs.polymarket.kind = "raised" THEN <<"Polymarket: " \o fs.polymarket.message>> ELSE <<>>)
    \o (IF fs.kalshi.kind = "raised" THEN <<"Kalshi: " \o fs.kalshi.message>> ELSE <<>>)
    \o (IF fs.sportsbook.kind = "raised" THEN <<"Sportsbook: " \o fs.sportsbook.message>> ELSE <<>>)

(***************************************************************************)
(* Specification SpecScan: one scan of fetched quote lists                 *)
(***************************************************************************)
MaxPoly == 1
MaxKalshi == 2
MaxSb == 3

\* Polymarket: two moneyline markets of the same game, its total, and a
\* market that names one of its teams
ScanPolys == <<
    PolyQuote(1, <<P4(5500), P4(4500)>>),
    PolyEntry("0xpoly9", "Will the Celtics beat the Lakers?", "", YesNo, <<P4(4200), P4(5800)>>),
    PolyQuote(3, <<P4(4800), P4(5000)>>),
    PolyEntry("0xpoly13", "Will the Lakers win their game tonight?", "", YesNo, <<P4(4200), P4(5800)>>) >>

\* Kalshi: the two sides of the game winner and its total
ScanKalshis == <<
    KalshiQuote(1, <<P4(5500), P4(4500)>>),
    KalshiQuote(2, <<P4(4400), P4(5400)>>),
    KalshiQuote(3, <<P4(4700), P4(5100)>>) >>

ScanEntries == <<
    SbQuote("draftkings", 1, "h2h", "Boston Celtics", NoPoint, "", P4(4545)),
    SbQuote("pinnacle", 1, "h2h", "Boston Celtics", NoPoint, "", P4(5300)),
    SbQuote("pinnacle", 1, "h2h", "Los Angeles Lakers", NoPoint, "", P4(4950)),
    SbQuote("fanduel", 1, "h2h", "Los Angeles Lakers", NoPoint, "", P4(4710)),
    SbQuote("betmgm", 1, "h2h", "Boston Celtics", NoPoint, "", P4(3000)),
    SbQuote("draftkings", 1, "totals", "Over", 215500, "", P4(5000)),
    SbQuote("fanduel", 1, "totals", "Under", 215500, "", P4(4600)) >>

\* request parameters: the defaults, and a minimum net edge of 5 % with a
\* sports filter
ScanParams == {[min_pct |-> DEFAULT_MIN_PCT, sports |-> <<>>],
               [min_pct |-> 5 * 10^3, sports |-> <<"nba">>]}

NoResponse == [pending |-> TRUE]

ScanIdle ==
    /\ futures = [idle |-> TRUE] /\ fetched = [idle |-> TRUE]
    /\ params = [idle |-> TRUE] /\ response = NoResponse

\* no second run; the clock stands at 0
RepeatIdle == clock = 0 /\ first_run = [pending |-> TRUE] /\ second_run = [pending |-> TRUE]

\* what a wait for a prediction source can end in: a list (possibly
\* empty), an exception of the fetcher, or the timeout
PredFutures(quotes, max) ==
    {Returned(l) : l \in SubLists(quotes, max)}
    \cup {Raised("Exception", "database is locked"), Raised("TimeoutError", "")}

\* what the wait for the sportsbook source can end in
SbFutures ==
    {fetch_sportsbook_odds({}, l) : l \in SubLists(ScanEntries, MaxSb)}
    \cup {fetch_sportsbook_odds(e, <<>>) : e \in SUBSET {"QUOTA_EXCEEDED", "INVALID_KEY", "HTTP Error 500"}}
    \cup {Raised("Exception", "database is locked"), Raised("TimeoutError", ""), NotSubmitted}

\* before the waits the three lists are empty
InitScan ==
    /\ futures \in [polymarket : PredFutures(ScanPolys, MaxPoly),
                    kalshi : PredFutures(ScanKalshis, MaxKalshi),
                    sportsbook : SbFutures]
    /\ fetched = [poly_markets |-> <<>>, kalshi_markets |-> <<>>, sportsbook_entries |-> <<>>]
    /\ params \in ScanParams
    /\ response = NoResponse

\* response = run_scan(params): the three waits, then the scan of the lists
\* they left
RunScan ==
    /\ response = NoResponse
    /\ fetched' = [poly_markets |-> FutureResult(futures.polymarket),
                   kalshi_markets |-> FutureResult(futures.kalshi),
                   sportsbook_entries |-> FutureResult(futures.sportsbook)]
    /\ response' = run_scan(FutureResult(futures.polymarket), FutureResult(futures.kalshi),
                            FutureResult(futures.sportsbook),
                            SourcesStatus(futures), ScanErrors(futures),
                            params.min_pct, params.sports)
    /\ UNCHANGED <<futures, params, notScan>>

Scanned == response # NoResponse

\* the opportunities of the response, and those of each type
Opps == response.opportunities

ArbIndices == {i \in 1..Len(Opps) : Opps[i].type = "arb"}

EvIndices == {i \in 1..Len(Opps) : Opps[i].type = "ev"}

\* the prediction quotes that were fetched
FetchedPreds == fetched.poly_markets \o fetched.kalshi_markets

\* the quotes of the example: one binary moneyline quote on Lakers and
\* Celtics at Yes 0.55 / No 0.45, one sportsbook h2h quote on the Celtics at
\* 0.4545
ExampleFetched ==
    /\ Len(FetchedPreds) = 1
    /\ FetchedPreds[1].market_subtype = "h2h"
    /\ Range(FetchedPreds[1].teams) = {"los angeles lakers", "boston celtics"}
    /\ FetchedPreds[1].prices = <<P4(5500), P4(4500)>>
    /\ Len(fetched.sportsbook_entries) = 1
    /\ fetched.sportsbook_entries[1].market_type = "h2h"
    /\ Range(fetched.sportsbook_entries[1].teams) = {"los angeles lakers", "boston celtics"}
    /\ fetched.sportsbook_entries[1].outcome_name = "Boston Celtics"
    /\ fetched.sportsbook_entries[1].implied_prob = P4(4545)

\* exactly one arbitrage, buying No at 0.45, with a gross edge of 9.55 %
ExampleArb ==
    /\ Cardinality(ArbIndices) = 1
    /\ \A i \in ArbIndices :
          /\ Opps[i].platform_a.implied_prob = 4500
          /\ Opps[i].gross_arb_pct = 9550
    /\ PredLeg(FetchedPreds[1], fetched.sportsbook_entries[1]).pred_side_raw = "No"

\* the quote names the Celtics as its Yes team
YesTeamCeltics == extract_teams_from_text(FetchedPreds[1].no_sub_title) = <<"boston celtics">>

\* C8 as stated: the example yields exactly one arbitrage, with prediction
\* leg No at 0.45 and gross edge 9.55 %, for every such prediction quote.
C8_ExampleArb == (Scanned /\ ExampleFetched) => ExampleArb

\* C8 amended: the example yields exactly one arbitrage, with prediction leg
\* No at 0.45 and gross edge 9.55 %, when the prediction quote names the
\* Celtics as its Yes team.
C8_ExampleArbYesCeltics == (Scanned /\ ExampleFetched /\ YesTeamCeltics) => ExampleArb

\* the example with a quote whose Yes team is the Celtics, scanned
C8_Witness == Scanned /\ ExampleFetched /\ YesTeamCeltics /\ ExampleArb

\* C9: no opportunity of a response is an arbitrage with a gross edge above
\* 15 % or a +EV with an EV above 30 %.
C9_EdgeCaps ==
    Scanned =>
        /\ \A i \in ArbIndices : Opps[i].gross_arb_pct <= 15 * 10^3
        /\ \A i \in EvIndices : Opps[i].ev_pct <= 30 * 10^3

\* a response with an arbitrage and a +EV, of a scan in which a matched
\* prediction-vs-sportsbook pair had a gross edge above 15 %
C9_Witness ==
    /\ Scanned
    /\ ArbIndices # {} /\ EvIndices # {}
    /\ \E p \in 1..Len(FetchedPreds), s \in 1..Len(fetched.sportsbook_entries) :
          LET pred == FetchedPreds[p]
              sb == fetched.sportsbook_entries[s]
          IN  /\ \E m \in 1..Len(NarrowCandidates(pred, fetched.sportsbook_entries)) :
                    NarrowCandidates(pred, fetched.sportsbook_entries)[m] = sb
              /\ MatchArb(PredLeg(pred, sb), sb) # None
              /\ MatchArb(PredLeg(pred, sb), sb).gross_arb_pct > 15 * 10^3

\* C10: a response holds no two arbitrages with the same event, platform
\* pair and market type, and no two +EV with the same event, platform and
\* market type.
C10_UniqueKeys ==
    Scanned =>
        /\ \A i, j \in ArbIndices :
              (i # j) => ~(/\ Opps[i].event = Opps[j].event
                           /\ Opps[i].platform_a.name = Opps[j].platform_a.name
                           /\ Opps[i].platform_b.name = Opps[j].platform_b.name
                           /\ Opps[i].market_type = Opps[j].market_type)
        /\ \A i, j \in EvIndices :
              (i # j) => ~(/\ Opps[i].event = Opps[j].event
                           /\ Opps[i].platform_a.name = Opps[j].platform_a.name
                           /\ Opps[i].market_type = Opps[j].market_type)

\* C11: in a response every arbitrage precedes every +EV, the arbitrages
\* are in non-increasing order of net_arb_pct and the +EV in non-increasing
\* order of ev_pct.
C11_Ordered ==
    Scanned =>
        \A i, j \in 1..Len(Opps) :
            (i < j) =>
                /\ ~(Opps[i].type = "ev" /\ Opps[j].type = "arb")
                /\ (Opps[i].type = "arb" /\ Opps[j].type = "arb")
                      => Opps[i].net_arb_pct >= Opps[j].net_arb_pct
                /\ (Opps[i].type = "ev" /\ Opps[j].type = "ev")
                      => Opps[i].ev_pct >= Opps[j].ev_pct

\* a response with two arbitrages of different edges and a +EV whose EV is
\* above the edge of an arbitrage, which the sort has put behind it
C11_Witness ==
    /\ Scanned
    /\ \E i, j \in ArbIndices : Opps[i].net_arb_pct > Opps[j].net_arb_pct
    /\ \E i \in ArbIndices, j \in EvIndices : Opps[j].ev_pct > Opps[i].net_arb_pct

\* the sources of a scan, with the label of their messages and their list
ScanSources ==
    {[key |-> "polymarket", label |-> "Polymarket: ", list |-> "poly_markets"],
     [key |-> "kalshi", label |-> "Kalshi: ", list |-> "kalshi_markets"],
     [key |-> "sportsbook", label |-> "Sportsbook: ", list |-> "sportsbook_entries"]}

\* the wait for the source ended in an exception or in the timeout
Failed(src) == futures[src.key].kind = "raised"

\* what the source delivered: its list, or nothing when it failed or was
\* not asked
Delivered(key) == IF futures[key].kind = "returned" THEN futures[key].quotes ELSE <<>>

\* the ids of the opportunities of all paths on the delivered lists that
\* pass the sports filter of the request
DeliveredIds ==
    LET wanted == {Upper(params.sports[i]) : i \in 1..Len(params.sports)}
        Ids(computed) ==
            {computed[i].id : i \in {k \in 1..Len(computed) :
                                        params.sports = <<>> \/ Upper(computed[k].sport) \in wanted}}
    IN  Ids(AllOpportunities(Delivered("polymarket"), Delivered("kalshi"),
                             Delivered("sportsbook"),
                             build_fair_odds_index(Delivered("sportsbook")),
                             params.min_pct))

\* C12: whatever the three waits end in, the scan returns a response; a
\* failed source leaves an empty list, has an error status in meta.sources
\* and a message in meta.errors, and the response holds the opportunities
\* of the lists that the other sources delivered.
C12_FailureDegrades ==
    Scanned =>
        /\ DOMAIN response = {"opportunities", "meta"}
        /\ \A src \in ScanSources :
              Failed(src) =>
                  /\ fetched[src.list] = <<>>
                  /\ response.meta.sources[src.key] \in {"error", "quota_exceeded", "invalid_key"}
                  /\ \E i \in 1..Len(response.meta.errors) :
                        /\ Len(response.meta.errors[i]) >= Len(src.label)
                        /\ SubSeq(response.meta.errors[i], 1, Len(src.label)) = src.label
        /\ Len(response.meta.errors) = Cardinality({src \in ScanSources : Failed(src)})
        /\ {Opps[i].id : i \in 1..Len(Opps)} = DeliveredIds

\* a scan whose sportsbook source ran out of quota while Polymarket and
\* Kalshi delivered, with opportunities from these two
C12_Witness ==
    /\ Scanned
    /\ response.meta.sources.sportsbook = "quota_exceeded"
    /\ futures.polymarket.kind = "returned" /\ futures.kalshi.kind = "returned"
    /\ Len(Opps) > 0

\* the opportunities that come from matching two quotes: their first leg
\* is a prediction-market quote
MatchedIndices == {i \in 1..Len(Opps) : Opps[i].platform_a.name \in {"Polymarket", "Kalshi"}}

\* C15: every opportunity of a response that comes from matching two quotes
\* carries a match confidence between 0.4 and 1 (in hundredths).
C15_ConfidenceBounds ==
    Scanned => \A i \in MatchedIndices : Opps[i].match_confidence >= 40 /\ Opps[i].match_confidence <= 100

\* C16: every arbitrage of a response has a net edge of at least the
\* min_pct of the request (both in milli-percent).
C16_MinimumEdge ==
    Scanned => \A i \in ArbIndices : Opps[i].net_arb_pct >= params.min_pct

\* the number of +EV opportunities of a list
EvCount(opps) == Cardinality({i \in 1..Len(opps) : opps[i].type = "ev"})

\* C17: every +EV opportunity of a response has an EV of at least the
\* minimum the finders are run with, 2 % (ev_pct is in milli-percent).
C17_MinimumEv ==
    Scanned => \A i \in EvIndices : Opps[i].ev_pct * 1000 >= MIN_EV_PCT

\* a response with a +EV opportunity, of a scan in which the sportsbook
\* path had more +EV candidates than it emitted with the minimum
C17_Witness ==
    /\ Scanned
    /\ EvIndices # {}
    /\ EvCount(find_cross_sportsbook_opportunities(
                   fetched.sportsbook_entries,
                   build_fair_odds_index(fetched.sportsbook_entries), -(10^9)))
         > EvCount(find_cross_sportsbook_opportunities(
                       fetched.sportsbook_entries,
                       build_fair_odds_index(fetched.sportsbook_entries), MIN_EV_PCT))

(***************************************************************************)
(* Specification SpecPair: one prediction quote against sportsbook quotes  *)
(***************************************************************************)
MaxPair == 2

\* the price pairs a prediction quote is given
PairPrices == {<<P4(5500), P4(4500)>>, <<P4(4200), P4(5600)>>}

\* a market of each subtype: moneyline, totals, futures, spreads, player
\* props and unknown from Polymarket, moneyline, totals, winning margin and
\* first-half totals from Kalshi, a totals question without a line and one
\* that asks for the under
PairPreds(prices) == {
    PolyQuote(1, prices), PolyQuote(3, prices), PolyQuote(4, prices),
    PolyQuote(6, prices), PolyQuote(7, prices), PolyQuote(8, prices),
    PolyEntry("0xpoly14", "Lakers vs Celtics: will the total go over?", "", YesNo, prices),
    PolyEntry("0xpoly15", "Lakers vs Celtics", "", YesNo, prices),
    PolyEntry("0xpoly17", "Lakers vs Celtics: total points under 215.5?", "", YesNo, prices),
    KalshiQuote(1, prices), KalshiQuote(2, prices), KalshiQuote(3, prices), KalshiQuote(4, prices),
    KalshiEntry("KXNBA1HTOTAL-LALBOS-105", "KXNBA1HTOTAL", "Los Angeles L at Boston: 1H Total Points",
                "Over 105.5 points", "", 105500, prices) }

PairEntries == <<
    SbQuote("draftkings", 1, "h2h", "Boston Celtics", NoPoint, "", P4(4545)),
    SbQuote("fanduel", 1, "h2h", "Los Angeles Lakers", NoPoint, "", P4(4710)),
    SbQuote("pinnacle", 1, "h2h", "Boston Celtics", NoPoint, "", P4(5300)),
    SbQuote("pinnacle", 1, "h2h", "Los Angeles Lakers", NoPoint, "", P4(4950)),
    SbQuote("draftkings", 1, "totals", "Over", 215500, "", P4(5000)),
    SbQuote("fanduel", 1, "totals", "Under", 215500, "", P4(4600)),
    SbQuote("draftkings", 1, "totals", "Over", 220500, "", P4(4000)),
    SbQuote("betmgm", 1, "totals", "Over", NoPoint, "", P4(4800)),
    SbQuote("draftkings", 1, "spreads", "Los Angeles Lakers", -5500, "", P4(5100)),
    SbQuote("fanduel", 1, "spreads", "Boston Celtics", 5500, "", P4(4500)),
    SbQuote("draftkings", 1, "player_points", "Over", 25500, "LeBron James", P4(5300)),
    SbQuote("fanduel", 1, "player_points", "Under", 25500, "LeBron James", P4(4400)),
    SbQuote("draftkings", 3, "h2h", "Los Angeles Lakers", NoPoint, "", P4(4000)) >>

NotFound == [pending |-> TRUE]

PairIdle == pair_in = [idle |-> TRUE] /\ pair_out = NotFound

InitPair ==
    /\ pair_in \in [pred : UNION {PairPreds(prices) : prices \in PairPrices},
                    entries : SubLists(PairEntries, MaxPair)]
    /\ pair_out = NotFound

\* the two prediction-vs-sportsbook finders on the lists, as run_scan calls
\* them, and the "matches" both of them compute for the quote
FindPair ==
    /\ pair_out = NotFound
    /\ pair_out' = [matches |-> PredMatches(pair_in.pred, pair_in.entries),
                    arbs |-> find_all_arb_opportunities(<<pair_in.pred>>, pair_in.entries,
                                                        DEFAULT_MIN_PCT),
                    evs |-> find_ev_opportunities(<<pair_in.pred>>, pair_in.entries,
                                                  build_fair_odds_index(pair_in.entries),
                                                  MIN_EV_PCT)]
    /\ UNCHANGED <<pair_in, arbVars, normVars, matchVars, fairVars, scanVars, repeatVars, evVars, crossVars, inferVars, teamsVars, configVars>>

Paired == pair_out # NotFound

\* the subtypes the compatibility table maps to the empty set
Unmatchable == {"winning_margin", "futures", "1h_totals"}

\* C22: a prediction quote of subtype winning_margin, futures or 1h_totals
\* never produces a prediction-vs-sportsbook arbitrage or +EV opportunity,
\* whatever sportsbook quotes are present; a quote of unknown subtype may be
\* paired with h2h, spreads, totals and player-prop sportsbook quotes.
C22_NoCompatibleMarket ==
    /\ (Paired /\ pair_in.pred.market_subtype \in Unmatchable)
          => (pair_out.matches = <<>> /\ pair_out.arbs = <<>> /\ pair_out.evs = <<>>)
    /\ MARKET_TYPE_COMPAT("unknown") = {"h2h", "spreads", "totals"} \cup PlayerMarkets

\* a winning-margin quote among sportsbook spread quotes of its own game
\* that would otherwise match it
C22_Witness ==
    /\ Paired
    /\ pair_in.pred.market_subtype = "winning_margin"
    /\ \E i \in 1..Len(pair_in.entries) :
          /\ pair_in.entries[i].market_type = "spreads"
          /\ MatchScore(pair_in.pred, pair_in.entries[i]) >= MIN_CONFIDENCE

\* the text in which the finders look for over/under
PredText(pred) == Lower(pred.question \o " " \o pred.description \o " " \o pred.no_sub_title)

\* a total or player-prop quote whose text carries an over/under keyword
OverUnderQuote(pred) ==
    /\ pred.market_subtype \in {"totals", "player_props"}
    /\ (HasWord(PredText(pred), "over") \/ HasWord(PredText(pred), "under"))

\* "pred_is_over = has_over and not has_under"
PredIsOver(pred) == HasWord(PredText(pred), "over") /\ ~HasWord(PredText(pred), "under")

\* the sportsbook leg of an opportunity is an Over, an Under
OppSbOver(opp) == StrPrefix(opp.platform_b.side, 5) = "Over "

OppSbUnder(opp) == StrPrefix(opp.platform_b.side, 6) = "Under "

\* the prediction side an opportunity buys, read from the price of its leg
\* (the two prices of a quote differ)
OppBuys(pred, opp) ==
    IF opp.platform_a.implied_prob = RoundTo(pred.prices[2], Half) THEN "No" ELSE "Yes"

\* the opportunities of both finders
PairOpps == pair_out.arbs \o pair_out.evs

\* C25: for a total or player-prop quote with an over/under keyword against
\* an over/under sportsbook quote, the bought prediction side depends on
\* over/under equality only: No when the sportsbook outcome is the side the
\* question asks for (Over against an "over" question), else Yes, whatever
\* the prices.
C25_OverUnderAlignment ==
    LET Aligned(pred, opps) ==
            \A i \in 1..Len(opps) :
                (OppSbOver(opps[i]) \/ OppSbUnder(opps[i]))
                => OppBuys(pred, opps[i])
                      = (IF PredIsOver(pred) = OppSbOver(opps[i]) THEN "No" ELSE "Yes")
    IN  (Paired /\ OverUnderQuote(pair_in.pred)) => Aligned(pair_in.pred, PairOpps)

\* an "over" question bought on Yes against a sportsbook Under whose price
\* is nearer to the Yes price than to the No price
C25_Witness ==
    /\ Paired /\ OverUnderQuote(pair_in.pred) /\ PredIsOver(pair_in.pred)
    /\ \E i \in 1..Len(pair_out.arbs) :
          /\ OppSbUnder(pair_out.arbs[i])
          /\ OppBuys(pair_in.pred, pair_out.arbs[i]) = "Yes"
    /\ \A j \in 1..Len(pair_in.entries) :
          /\ pair_in.entries[j].outcome_name = "Under"
          /\ PriceProximity(pair_in.pred, pair_in.entries[j])
    /\ pair_in.entries # <<>>

\* "yes_team_label": the team a moneyline quote names as its Yes side
YesTeamLabel(pred) == Strip(pred.no_sub_title)

\* the tokens the Yes team shares with the sportsbook outcome of an
\* opportunity, generic tokens left out
YesTeamOverlap(pred, outcome_name) ==
    (TokenSet(YesTeamLabel(pred)) \cap TokenSet(Strip(outcome_name))) \ GenericTokens

\* the sportsbook outcome of an opportunity of a moneyline quote
OppSbOutcome(opp) ==
    IF opp.type = "ev" THEN SubSeq(opp.platform_b.side, 1, Len(opp.platform_b.side) - 6)
    ELSE opp.platform_b.side

\* C26: for every moneyline prediction quote the side alignment against a
\* sportsbook outcome is decided by the token overlap between the quote's
\* Yes team and the outcome's team name, less the generic tokens; the
\* prices never decide it.
C26_MoneylineByTeam ==
    LET ByTeam(pred, opps) ==
            \A i \in 1..Len(opps) :
                /\ YesTeamLabel(pred) # ""
                /\ OppBuys(pred, opps[i])
                      = (IF YesTeamOverlap(pred, OppSbOutcome(opps[i])) # {} THEN "No" ELSE "Yes")
    IN  (Paired /\ pair_in.pred.market_subtype = "h2h") => ByTeam(pair_in.pred, PairOpps)

\* the fair probabilities of the outcomes complementary to a sportsbook
\* quote: the other outcomes of its group at the same point line (a spread
\* has the line with the other sign on the other team)
ComplementFair(entries, sb) ==
    LET SamePoint(q) == Abs(q.outcome_point) = Abs(sb.outcome_point) /\ OutcomeKey(q) # OutcomeKey(sb)
        Keys(quotes) == {OutcomeKey(quotes[i]) : i \in 1..Len(quotes)}
        Of(fair_probs, okeys) ==
            {fair_probs[i].fair_prob : i \in {k \in 1..Len(fair_probs) : fair_probs[k].okey \in okeys}}
    IN  Of(FairProbs(entries, GroupKey(sb)), Keys(SelectSeq(GroupQuotes(entries, GroupKey(sb)), SamePoint)))

\* C28: the fair probability of every +EV opportunity is the devigged
\* probability of the outcome on which the bought prediction side pays
\* out: that of the outcome complementary, at the same point line, to the
\* sportsbook outcome the quote was matched with, never that of the
\* sportsbook outcome itself.
C28_FairOfPayingOutcome ==
    LET Paying(opp, fair) == \E f \in fair : opp.consensus_prob = RoundTo(f, Half)
    IN  (Paired /\ pair_out.evs # <<>>)
            => Paying(pair_out.evs[1],
                      ComplementFair(pair_in.entries, pair_out.matches[1].sportsbook_entry))

\* C29: narrowing by the team index loses nothing: every sportsbook quote
\* that try_match_prediction_to_sportsbook accepts (score >= 0.4) over the
\* whole snapshot is among the candidates of the team index, and the matcher
\* returns the same accepted candidates on the indexed candidates as on the
\* whole snapshot.
C29_IndexLosesNothing ==
    LET Lossless(pred, entries, indexed) ==
            /\ \A i \in 1..Len(entries) :
                   MatchScore(pred, entries[i]) >= MIN_CONFIDENCE
                       => \E k \in 1..Len(indexed) : indexed[k] = entries[i]
            /\ Range(try_match_prediction_to_sportsbook(pred, indexed))
                   = Range(try_match_prediction_to_sportsbook(pred, entries))
    IN  Paired => Lossless(pair_in.pred, pair_in.entries,
                           TeamCandidates(pair_in.pred.teams, pair_in.entries))

\* the index leaves a quote of another game out and the matcher accepts a
\* quote of the snapshot
C29_Witness ==
    LET Narrowed(pred, entries, indexed) ==
            /\ Len(indexed) < Len(entries)
            /\ \E i \in 1..Len(entries) : MatchScore(pred, entries[i]) >= MIN_CONFIDENCE
    IN  Paired /\ Narrowed(pair_in.pred, pair_in.entries,
                           TeamCandidates(pair_in.pred.teams, pair_in.entries))

(***************************************************************************)
(* Specification SpecCross: Polymarket quotes against Kalshi quotes        *)
(***************************************************************************)
MaxCross == 2

\* the total of a game at two lines and without a line, and its two
\* moneyline questions
CrossPolys == <<
    PolyQuote(3, <<P4(4800), P4(5000)>>),
    PolyEntry("0xpoly16", "Lakers vs Celtics: total points over 220.5?", "", YesNo, <<P4(4000), P4(5800)>>),
    PolyEntry("0xpoly14", "Lakers vs Celtics: will the total go over?", "", YesNo, <<P4(4800), P4(5000)>>),
    PolyQuote(1, <<P4(5500), P4(4500)>>),
    PolyEntry("0xpoly9", "Will the Celtics beat the Lakers?", "", YesNo, <<P4(4200), P4(5800)>>) >>

\* the two sides of the game winner, and its total at 215.5
CrossKalshis == <<
    KalshiQuote(1, <<P4(5500), P4(4500)>>),
    KalshiQuote(2, <<P4(4400), P4(5400)>>),
    KalshiQuote(3, <<P4(4700), P4(5100)>>),
    KalshiEntry("KXNBATOTAL-LALBOS-210", "KXNBATOTAL", "Los Angeles L at Boston: over 210.5 points?",
                "Over 210.5 points", "", 210500, <<P4(5600), P4(4200)>>) >>

NotCrossed == <<[pending |-> TRUE]>>

CrossIdle == cross_in = [idle |-> TRUE] /\ cross_out = NotCrossed

InitCross ==
    /\ cross_in \in [polys : SubLists(CrossPolys, MaxCross), kalshis : SubLists(CrossKalshis, MaxCross)]
    /\ cross_out = NotCrossed

\* cross_out = find_cross_prediction_arbs(polys, kalshis), as run_scan
\* calls it by default
FindCross ==
    /\ cross_out = NotCrossed
    /\ cross_out' = find_cross_prediction_arbs(cross_in.polys, cross_in.kalshis, DEFAULT_MIN_PCT)
    /\ UNCHANGED <<cross_in, arbVars, normVars, matchVars, fairVars, scanVars, repeatVars, evVars, pairVars, inferVars, teamsVars, configVars>>

Crossed == cross_out # NotCrossed

\* an opportunity of the result pairs the two quotes
CrossFound(pm, km) ==
    \E i \in 1..Len(cross_out) : cross_out[i].id = "cross-" \o pm.id \o "-" \o km.id \o "-" \o pm.outcomes[1]

LineSubtypes == {"totals", "spreads", "player_props"}

\* the two lines exist and are within 0.01 of each other
SameLine(line_a, line_b) ==
    line_a # NoPoint /\ line_b # NoPoint /\ Abs(line_a - line_b) < PointScale \div 100

\* C23: for a prediction quote of subtype totals, spreads or player_props
\* an opportunity is only produced with a quote whose point line is within
\* 0.01 of the prediction quote's line, and none when a line cannot be
\* extracted for either quote (prediction-vs-prediction matching).
C23_SameLine ==
    Crossed =>
        \A p \in 1..Len(cross_in.polys) : \A k \in 1..Len(cross_in.kalshis) :
            (cross_in.polys[p].market_subtype \in LineSubtypes
                 /\ CrossFound(cross_in.polys[p], cross_in.kalshis[k]))
            => SameLine(PredLine(cross_in.polys[p]), PredLine(cross_in.kalshis[k]))

(***************************************************************************)
(* Specification SpecDegenerate: one scan of lists that hold quotes with   *)
(* a missing price or a probability outside (0, 1)                         *)
(***************************************************************************)
MaxDegenerate == 2

\* Polymarket: a sound quote, one whose second price did not parse (0), one
\* with a single outcome and price, one priced at 0 / 1
DegeneratePolys == <<
    PolyEntry("0xpoly9", "Will the Celtics beat the Lakers?", "", YesNo, <<P4(4200), P4(5800)>>),
    PolyEntry("0xpoly10", "Will the Celtics beat the Lakers?", "", YesNo, <<P4(9500), 0>>),
    PolyEntry("0xpoly11", "Will the Lakers beat the Celtics?", "", <<"Yes">>, <<P4(4000)>>),
    PolyEntry("0xpoly12", "Will the Lakers beat the Celtics?", "", YesNo, <<0, One>>) >>

\* Kalshi: two sound quotes and one quoted at 100 cents
DegenerateKalshis == <<
    KalshiQuote(1, <<P4(5500), P4(4500)>>),
    KalshiQuote(2, <<P4(4400), P4(5400)>>),
    KalshiQuote(2, <<One, 0>>) >>

\* sportsbooks: sound quotes and one with odds 0, whose implied
\* probability is 0
DegenerateEntries == <<
    SbQuote("draftkings", 1, "h2h", "Boston Celtics", NoPoint, "", P4(4545)),
    SbQuote("pinnacle", 1, "h2h", "Boston Celtics", NoPoint, "", P4(5300)),
    SbQuote("caesars", 1, "h2h", "Boston Celtics", NoPoint, "", P4(9000)),
    SbQuote("fanduel", 1, "h2h", "Los Angeles Lakers", NoPoint, "", P4(4710)),
    SbQuote("betmgm", 1, "h2h", "Los Angeles Lakers", NoPoint, "", 0) >>

InitDegenerate ==
    /\ futures \in [polymarket : {Returned(l) : l \in SubLists(DegeneratePolys, MaxDegenerate)},
                    kalshi : {Returned(l) : l \in SubLists(DegenerateKalshis, MaxDegenerate)},
                    sportsbook : {Returned(l) : l \in SubLists(DegenerateEntries, MaxDegenerate)}]
    /\ fetched = [poly_markets |-> <<>>, kalshi_markets |-> <<>>, sportsbook_entries |-> <<>>]
    /\ params = [min_pct |-> DEFAULT_MIN_PCT, sports |-> <<>>]
    /\ response = NoResponse

\* the opportunities that the four finders emit on the fetched lists
Emitted ==
    AllOpportunities(fetched.poly_markets, fetched.kalshi_markets, fetched.sportsbook_entries,
                     build_fair_odds_index(fetched.sportsbook_entries), params.min_pct)

\* the quote lacks a price or an outcome, or has a probability outside (0, 1)
DegeneratePred(q) ==
    \/ Len(q.prices) < 2 \/ Len(q.outcomes) < 2
    \/ \E k \in 1..Len(q.prices) : q.prices[k] <= 0 \/ q.prices[k] >= One

DegenerateSb(q) == q.implied_prob <= 0 \/ q.implied_prob >= One

\* the probability of a leg, in units of 10^-4, lies strictly between 0 and 1
InsideUnit(leg) == leg.implied_prob > 0 /\ leg.implied_prob < 10^4

MaxRepeat == 2

\* the last minute of the wall clock
MaxClock == 2

RepeatPolys == <<
    PolyEntry("0xpoly9", "Will the Celtics beat the Lakers?", "", YesNo, <<P4(4200), P4(5800)>>),
    PolyQuote(1, <<P4(5500), P4(4500)>>) >>

RepeatKalshis == <<
    KalshiQuote(1, <<P4(5500), P4(4500)>>),
    KalshiQuote(2, <<P4(4400), P4(5400)>>) >>

\* quotes of a game that starts at minute 62
RepeatEntries == <<
    SbQuote("draftkings", 1, "h2h", "Boston Celtics", NoPoint, "", P4(4545)),
    SbQuote("pinnacle", 1, "h2h", "Boston Celtics", NoPoint, "", P4(5300)),
    SbQuote("pinnacle", 1, "h2h", "Los Angeles Lakers", NoPoint, "", P4(4950)),
    SbQuote("fanduel", 1, "h2h", "Los Angeles Lakers", NoPoint, "", P4(4710)) >>

NotRun == [pending |-> TRUE]

InitRepeat ==
    /\ fetched \in [poly_markets : SubLists(RepeatPolys, MaxRepeat),
                    kalshi_markets : SubLists(RepeatKalshis, MaxRepeat),
                    sportsbook_entries : SubLists(RepeatEntries, MaxRepeat)]
    /\ params = [min_pct |-> DEFAULT_MIN_PCT, sports |-> <<>>]
    /\ futures = [idle |-> TRUE] /\ response = NoResponse
    /\ clock = 0 /\ first_run = NotRun /\ second_run = NotRun

\* the finders, in the order run_scan calls them, on the fetched lists
FindOpportunities ==
    /\ first_run = NotRun
    /\ first_run' = [opportunities |->
                        AllOpportunities(fetched.poly_markets, fetched.kalshi_markets,
                                         fetched.sportsbook_entries,
                                         build_fair_odds_index(fetched.sportsbook_entries),
                                         params.min_pct)]
    /\ UNCHANGED <<clock, second_run, scanVars, arbVars, normVars, matchVars, fairVars, evVars, pairVars, crossVars, inferVars, teamsVars, configVars>>

\* a minute passes
Tick ==
    /\ clock < MaxClock
    /\ clock' = clock + 1
    /\ UNCHANGED <<first_run, second_run, scanVars, arbVars, normVars, matchVars, fairVars, evVars, pairVars, crossVars, inferVars, teamsVars, configVars>>

\* the finders once more, on the same lists and thresholds
FindAgain ==
    /\ first_run # NotRun /\ second_run = NotRun
    /\ second_run' = [opportunities |->
                         AllOpportunities(fetched.poly_markets, fetched.kalshi_markets,
                                          fetched.sportsbook_entries,
                                          build_fair_odds_index(fetched.sportsbook_entries),
                                          params.min_pct)]
    /\ UNCHANGED <<clock, first_run, scanVars, arbVars, normVars, matchVars, fairVars, evVars, pairVars, crossVars, inferVars, teamsVars, configVars>>

\* C14: two runs of the finders on the same quote lists and thresholds give
\* the same list of opportunities, field for field and in the same order.
C14_Deterministic ==
    (first_run # NotRun /\ second_run # NotRun) => second_run = first_run

(***************************************************************************)
(* Specifications                                                          *)
(***************************************************************************)
NextArb == ComputeArb

\* the initial states of SpecArb: the other groups of variables stay idle
StartArb == InitArb /\ NormIdle /\ MatchIdle /\ FairIdle /\ ScanIdle /\ RepeatIdle /\ EvIdle /\ PairIdle /\ CrossIdle /\ InferIdle /\ TeamsIdle /\ ConfigIdle

SpecArb == StartArb /\ [][NextArb]_vars

NextNorm == NormalizeOnce \/ NormalizeTwice

\* the initial states of SpecNorm: the other groups of variables stay idle
StartNorm == InitNorm /\ ArbIdle /\ MatchIdle /\ FairIdle /\ ScanIdle /\ RepeatIdle /\ EvIdle /\ PairIdle /\ CrossIdle /\ InferIdle /\ TeamsIdle /\ ConfigIdle

SpecNorm == StartNorm /\ [][NextNorm]_vars

NextMatch == TryMatch

\* the initial states of SpecMatch: the other groups of variables stay idle
StartMatch == InitMatch /\ ArbIdle /\ NormIdle /\ FairIdle /\ ScanIdle /\ RepeatIdle /\ EvIdle /\ PairIdle /\ CrossIdle /\ InferIdle /\ TeamsIdle /\ ConfigIdle

SpecMatch == StartMatch /\ [][NextMatch]_vars

NextFair == BuildFair

\* the initial states of SpecFair: the other groups of variables stay idle
StartFair == InitFair /\ ArbIdle /\ NormIdle /\ MatchIdle /\ ScanIdle /\ RepeatIdle /\ EvIdle /\ PairIdle /\ CrossIdle /\ InferIdle /\ TeamsIdle /\ ConfigIdle

SpecFair == StartFair /\ [][NextFair]_vars

NextScan == RunScan

\* the initial states of SpecScan: the other groups of variables stay idle
StartScan == InitScan /\ ArbIdle /\ NormIdle /\ MatchIdle /\ FairIdle /\ RepeatIdle /\ EvIdle /\ PairIdle /\ CrossIdle /\ InferIdle /\ TeamsIdle /\ ConfigIdle

SpecScan == StartScan /\ [][NextScan]_vars

\* the initial states of SpecDegenerate: the other groups of variables stay idle
StartDegenerate == InitDegenerate /\ ArbIdle /\ NormIdle /\ MatchIdle /\ FairIdle /\ RepeatIdle /\ EvIdle /\ PairIdle /\ CrossIdle /\ InferIdle /\ TeamsIdle /\ ConfigIdle

SpecDegenerate == StartDegenerate /\ [][NextScan]_vars

NextRepeat == FindOpportunities \/ Tick \/ FindAgain

\* the initial states of SpecRepeat: the other groups of variables stay idle
StartRepeat == InitRepeat /\ ArbIdle /\ NormIdle /\ MatchIdle /\ FairIdle /\ EvIdle /\ PairIdle /\ CrossIdle /\ InferIdle /\ TeamsIdle /\ ConfigIdle

SpecRepeat == StartRepeat /\ [][NextRepeat]_vars

NextEv == ComputeEv

\* the initial states of SpecEv: the other groups of variables stay idle
StartEv == InitEv /\ ArbIdle /\ NormIdle /\ MatchIdle /\ FairIdle /\ ScanIdle /\ RepeatIdle /\ PairIdle /\ CrossIdle /\ InferIdle /\ TeamsIdle /\ ConfigIdle

SpecEv == StartEv /\ [][NextEv]_vars

\* the initial states of SpecTop: the other groups of variables stay idle
StartTop == InitTop /\ ArbIdle /\ NormIdle /\ FairIdle /\ ScanIdle /\ RepeatIdle /\ EvIdle /\ PairIdle /\ CrossIdle /\ InferIdle /\ TeamsIdle /\ ConfigIdle

SpecTop == StartTop /\ [][NextMatch]_vars

NextPair == FindPair

\* the initial states of SpecPair: the other groups of variables stay idle
StartPair == InitPair /\ ArbIdle /\ NormIdle /\ MatchIdle /\ FairIdle /\ ScanIdle /\ RepeatIdle /\ EvIdle /\ CrossIdle /\ InferIdle /\ TeamsIdle /\ ConfigIdle

SpecPair == StartPair /\ [][NextPair]_vars

NextCross == FindCross

\* the initial states of SpecCross: the other groups of variables stay idle
StartCross == InitCross /\ ArbIdle /\ NormIdle /\ MatchIdle /\ FairIdle /\ ScanIdle /\ RepeatIdle /\ EvIdle /\ PairIdle /\ InferIdle /\ TeamsIdle /\ ConfigIdle

SpecCross == StartCross /\ [][NextCross]_vars

NextInfer == InferSubtype

\* the initial states of SpecInfer: the other groups of variables stay idle
StartInfer == InitInfer /\ ArbIdle /\ NormIdle /\ MatchIdle /\ FairIdle /\ ScanIdle /\ RepeatIdle /\ EvIdle /\ PairIdle /\ CrossIdle /\ TeamsIdle /\ ConfigIdle

SpecInfer == StartInfer /\ [][NextInfer]_vars

NextTeams == ExtractTeams

\* the initial states of SpecTeams: the other groups of variables stay idle
StartTeams == InitTeams /\ ArbIdle /\ NormIdle /\ MatchIdle /\ FairIdle /\ ScanIdle /\ RepeatIdle /\ EvIdle /\ PairIdle /\ CrossIdle /\ InferIdle /\ ConfigIdle

SpecTeams == StartTeams /\ [][NextTeams]_vars

\* the initial states of SpecConfig: the other groups of variables stay idle
StartConfig == InitConfig /\ ArbIdle /\ NormIdle /\ MatchIdle /\ FairIdle /\ ScanIdle /\ RepeatIdle /\ EvIdle /\ PairIdle /\ CrossIdle /\ InferIdle /\ TeamsIdle

SpecConfig == StartConfig /\ [][NextConfig]_vars

====
